---- MODULE Spec2Model ----
(***************************************************************************)
(* Polling loaders of the paper engine: the reconciliation of a batch of   *)
(* entity records against the stored state (Loader.compute_events), and    *)
(* the delivery cycle around it (Loader.run_service, run_once, process,    *)
(* persist_delivery, persist_postgres, Target, Alpaca.submit_orders).      *)
(*                                                                         *)
(* A state record keeps its key fields (portfolio_id, asset_id,            *)
(* position_ts), the field side, and one optional value field, quantity,   *)
(* which stands for the optional value fields (wgt, quantity, notional):   *)
(* the source treats each of them the way it treats quantity.              *)
(*                                                                         *)
(* SpecEngine runs compute_events step by step on a batch; SpecMonitor is  *)
(* the polling loop of the monitor loader and SpecOrders the polling loop  *)
(* of the orders loader, with a failure possible at every call they make.  *)
(* SpecPersist runs persist_postgres on the events of a batch.  The pure   *)
(* functions are applied to every input of a bounded set: the change mask  *)
(* (SpecMask), the hash of the orders model (SpecHash), Loader.process of  *)
(* the loaders without event logs (SpecProcess), the sizing of orders      *)
(* (SpecSizing, SpecPricing with asks and bids that differ, SpecBucket     *)
(* for the orders of one capital bucket), the blend of target weights      *)
(* (SpecRebalance) and its                                                 *)
(* fallback (SpecFallback), the prior state process loads (SpecReconcile), *)
(* the stored table after process and persist_postgres (SpecStore) and     *)
(* process of the strategy loader (SpecStrategy).  SpecFetch runs the      *)
(* retry loop of Source.fetch.                                             *)
(***************************************************************************)
EXTENDS Integers, Sequences, FiniteSets, TLC

\* locals and arguments of Loader.compute_events, and the batch it is run on
VARIABLES file, prev, curr, events, create, amend, remove, it_event_id, event_seq, i, epc, run, rerun, first_run

engineVars == <<file, prev, curr, events, create, amend, remove, it_event_id, event_seq, i, epc, run, rerun, first_run>>

\* the loader: its position in run_service/run_once (pc, ent_i, plan_i,
\* close_i), its flags and locals, the target database as committed, as the
\* loader's open session sees it and as committed when the cycle began
\* (cycle_start), and the calls the cycle made to the broker (closed,
\* attempted, accepted, failed), and the upstream decision deliveries for
\* which orders were sent to the broker, over all cycles (acted)
\* what check_market_open found in the cycle (market_open)
VARIABLES loader, pc, stop, cycles, raised, raised_at, dry_run, adjust, files, ent_i, delivery, delivery_id, delivery_seq, committed, session, in_progress, tx_begun, rollbacks, plan_i, cycle_start, latest_decision, tickers, close_i, orders, attempted, accepted, closed, failed, acted, market_open

\* the argument and the result of a function that is checked on its own
VARIABLES fn_in, fn_out

fnVars == <<fn_in, fn_out>>

cfgVars == <<loader, dry_run, adjust>>

excVars == <<raised, raised_at>>

deliveryVars == <<files, ent_i, delivery, delivery_id, delivery_seq>>

txVars == <<committed, session, in_progress, rollbacks, plan_i>>

brokerVars == <<tickers, close_i, orders, attempted, accepted, closed, failed, acted, market_open>>

loaderVars == <<cfgVars, excVars, deliveryVars, txVars, brokerVars, pc, stop, cycles, tx_begun, cycle_start, latest_decision>>

\* the locals of compute_events (all of engineVars but the database sequence)
engineLocals == <<file, prev, curr, events, create, amend, remove, it_event_id, i, epc, run, rerun, first_run>>

vars == <<engineVars, loaderVars, fnVars>>

\* ------------------------------------------------------------------------
\* Bounds and domains
\* ------------------------------------------------------------------------

\* longest batch (file) handed to the reconciliation engine
MaxLen == 3

\* Python's None in an optional field
None == 0 - 1

\* a field that was never assigned (reading it raises AttributeError)
Unset == 0 - 2

\* the absent prev of a CREATE event (prev=None)
NoState == [none |-> TRUE]

\* keys of the reconciliation engine's inputs: (portfolio_id, asset_id, position_ts)
Keys == {<<1, "AAPL", 1>>, <<1, "MSFT", 1>>}

\* upstream values of the optional field
RawVals == {0, 1, 2}

\* values a stored row holds in the optional field
StoredVals == {None, 1, 2}

\* ------------------------------------------------------------------------
\* State record (model/position.py, model/orders.py)
\* ------------------------------------------------------------------------

\* State.key
Key(r) == <<r.portfolio_id, r.asset_id, r.position_ts>>

\* content fingerprint with the identifiers mixed in
HashWithIds(r) == <<r.portfolio_id, r.side, r.asset_id, r.position_ts, r.quantity, r.event_id, r.delivery_id>>

\* State.hash: every field but event_id and delivery_id, in field order
Hash(r) == <<r.portfolio_id, r.side, r.asset_id, r.position_ts, r.quantity>>

\* an upstream row: (portfolio_id, side, asset_id, position_ts, quantity)
SourceRow(k, q) == [portfolio_id |-> k[1], side |-> 1, asset_id |-> k[2], position_ts |-> k[3], quantity |-> q]

\* State.from_source: identifiers None, a falsy optional field becomes None
FromSource(row) ==
  [portfolio_id |-> row.portfolio_id, side |-> row.side, asset_id |-> row.asset_id,
   position_ts |-> row.position_ts,
   quantity |-> IF row.quantity = 0 \/ row.quantity = None THEN None ELSE row.quantity,
   event_id |-> None, delivery_id |-> None]

\* State.as_tuple: the stored row, with the hash column
AsTuple(r) ==
  [portfolio_id |-> r.portfolio_id, side |-> r.side, asset_id |-> r.asset_id,
   position_ts |-> r.position_ts, quantity |-> r.quantity, hash |-> Hash(r),
   event_id |-> r.event_id, delivery_id |-> r.delivery_id]

\* State.from_target: the stored hash is dropped, the identifiers are kept
FromTarget(row) ==
  [portfolio_id |-> row.portfolio_id, side |-> row.side, asset_id |-> row.asset_id,
   position_ts |-> row.position_ts,
   quantity |-> IF row.quantity = 0 \/ row.quantity = None THEN None ELSE row.quantity,
   event_id |-> row.event_id, delivery_id |-> row.delivery_id]

\* State.removal_instance: key fields and identifiers set; side never assigned
RemovalInstance(event_id, did, key) ==
  [portfolio_id |-> key[1], side |-> Unset, asset_id |-> key[2], position_ts |-> key[3],
   quantity |-> None, event_id |-> event_id, delivery_id |-> did]

\* EventLog.from_states
FromStates(event_type, c, p) == [event_type |-> event_type, curr |-> c, prev |-> p]

\* ------------------------------------------------------------------------
\* Event id sequence (Target.get_next_event_id)
\* ------------------------------------------------------------------------

\* a generator that has not run yet: it reserves n ids at its first next()
NewIterator(n) == [started |-> FALSE, n |-> n, base |-> 0, used |-> 0]

\* next(it_event_id): the id yielded
IdOf(itr, sq) == IF itr.started THEN itr.base + itr.used ELSE sq + 1

\* next(it_event_id): the generator afterwards
Advance(itr, sq) ==
  IF itr.started THEN [itr EXCEPT !.used = @ + 1]
  ELSE [started |-> TRUE, n |-> itr.n, base |-> sq + 1, used |-> 1]

\* a cursor whose query leaves the database sequence where it was
SeqAfterNoReserve(itr, sq) == sq

\* next(it_event_id): the database sequence afterwards
SeqAfter(itr, sq) == IF itr.started THEN sq ELSE sq + itr.n

\* ------------------------------------------------------------------------
\* Reconciliation engine (Loader.compute_events)
\* ------------------------------------------------------------------------

\* dict assignment d[k] = r
Put(d, k, r) == [x \in (DOMAIN d) \cup {k} |-> IF x = k THEN r ELSE d[x]]

\* Loader.find
Find(needle, haystack) == haystack[needle]

\* one iteration of the loop, comparing against the prior state only
\* (no rolling baseline: the working map is never updated)
StepItemNoRolling(w, item, did) ==
  IF Key(item) \in DOMAIN w.events
  THEN LET prev_item == Find(Key(item), w.events) IN
       IF Hash(item) = Hash(prev_item)
       THEN w
       ELSE LET it2 == [item EXCEPT !.delivery_id = did, !.event_id = IdOf(w.it, w.seq)] IN
            [w EXCEPT !.amend = Append(@, FromStates("AMEND", it2, prev_item)),
                      !.it = Advance(w.it, w.seq), !.seq = SeqAfter(w.it, w.seq)]
  ELSE LET it2 == [item EXCEPT !.delivery_id = did, !.event_id = IdOf(w.it, w.seq)] IN
       [w EXCEPT !.create = Append(@, FromStates("CREATE", it2, NoState)),
                 !.it = Advance(w.it, w.seq), !.seq = SeqAfter(w.it, w.seq)]

\* one iteration of the loop over curr; w holds the locals events, create,
\* amend, it (it_event_id) and the database sequence seq
StepItem(w, item, did) ==
  IF Key(item) \in DOMAIN w.events
  THEN LET prev_item == Find(Key(item), w.events) IN
       IF Hash(item) = Hash(prev_item)
       THEN w
       ELSE LET it2 == [item EXCEPT !.delivery_id = did, !.event_id = IdOf(w.it, w.seq)] IN
            [w EXCEPT !.amend = Append(@, FromStates("AMEND", it2, prev_item)),
                      !.events = Put(@, Key(item), it2),
                      !.it = Advance(w.it, w.seq), !.seq = SeqAfter(w.it, w.seq)]
  ELSE LET it2 == [item EXCEPT !.delivery_id = did, !.event_id = IdOf(w.it, w.seq)] IN
       [w EXCEPT !.create = Append(@, FromStates("CREATE", it2, NoState)),
                 !.events = Put(@, Key(item), it2),
                 !.it = Advance(w.it, w.seq), !.seq = SeqAfter(w.it, w.seq)]

\* the keys of a batch
KeysOf(recs) == {Key(recs[j]) : j \in 1..Len(recs)}

\* removal by value: only keys whose stored value is unset are removed
PrevKeysByValue(evs, recs) == {k \in (DOMAIN evs) \ KeysOf(recs) : evs[k].quantity = None}

\* prev_keys = set(events.keys()) - set(item.key for item in curr)
PrevKeys(evs, recs) == (DOMAIN evs) \ KeysOf(recs)

\* the orders in which a set can be iterated
Orders(S) == {o \in [1..Cardinality(S) -> S] : \A a, b \in 1..Cardinality(S) : a # b => o[a] # o[b]}

\* the loop over prev_keys, iterated in the order ord
RECURSIVE Removals(_, _, _, _, _, _)
Removals(ord, j, evs, itr, sq, did) ==
  IF j > Len(ord) THEN [remove |-> <<>>, it |-> itr, seq |-> sq]
  ELSE LET item == RemovalInstance(IdOf(itr, sq), did, ord[j])
           prev_item == Find(ord[j], evs)
           rest == Removals(ord, j + 1, evs, Advance(itr, sq), SeqAfter(itr, sq), did)
       IN [rest EXCEPT !.remove = <<FromStates("REMOVE", item, prev_item)>> \o @]

\* ------------------------------------------------------------------------
\* Target database (persistance/target.py) and the delivery written to it
\* ------------------------------------------------------------------------

\* cycles of the polling loop that are explored
MaxCycles == 2

\* latest delivery id the upstream strategy loader can reach
MaxDecision == 2

\* tickers held or traded
Assets == {"AAPL", "MSFT"}

\* quantities of a position at the broker
Quantities == {10, 20}

\* the key of a control record: (portfolio_id,), kept in the shape of Key
\* with the asset and timestamp fields constant
ControlKey == <<1, "-", 0>>

\* the entity kinds of a delivery, in the order of the delivery dict; two
\* kinds of each loader are kept, a keyed record kind and the control kind
\* (process and persist_postgres treat every kind alike)
Entities == IF loader = "monitor" THEN <<"portfolio_control", "position">> ELSE <<"orders", "orders_control">>

EntitySet == {"portfolio_control", "position", "orders", "orders_control"}

\* an empty Dict[Key, State] or table
EmptyDict == [k \in {} |-> NoState]

\* the tables of the target: per entity kind the state table (rows) and the
\* event log table (log), and the delivery table (meta)
EmptyDb == [rows |-> [e \in EntitySet |-> EmptyDict], log |-> [e \in EntitySet |-> {}], meta |-> {}]

\* Events of an entity before process has run
NoEventsYet == [CREATE |-> <<>>, AMEND |-> <<>>, REMOVE |-> <<>>]

\* a connection that commits every statement on its own
AutoCommitOn == TRUE

\* Target.connect: connection.autocommit = False
AutoCommit == FALSE

\* Target.get_current_state(LOAD_STATE, keys) followed by from_target:
\* prev_records, the stored rows whose key is among keys
GetCurrentState(db, e, keys) == [k \in (DOMAIN db.rows[e]) \cap keys |-> FromTarget(db.rows[e][k])]

\* State.list_ids_from_source
ListIdsFromSource(f) == {Key(FromSource(f[j])) : j \in 1..Len(f)}

\* the loop over curr of compute_events, from item j on
RECURSIVE Loop(_, _, _, _)
Loop(w, recs, j, d) == IF j > Len(recs) THEN w ELSE Loop(StepItem(w, recs[j], d), recs, j + 1, d)

\* Loader.compute_events as a whole; ord is the iteration order of prev_keys
ComputeEvents(recs, p, d, sq, ord) ==
  LET w == Loop([events |-> p, create |-> <<>>, amend |-> <<>>, it |-> NewIterator(Len(recs)), seq |-> sq], recs, 1, d)
      r == Removals(ord, 1, w.events, NewIterator(Len(ord)), w.seq, d)
  IN [CREATE |-> w.create, AMEND |-> w.amend, REMOVE |-> r.remove, seq |-> r.seq]

\* the working map after the loop over curr
EventsAfterLoop(recs, p, d, sq) ==
  Loop([events |-> p, create |-> <<>>, amend |-> <<>>, it |-> NewIterator(Len(recs)), seq |-> sq], recs, 1, d).events

\* EventLog.as_record: (event_type,) + curr.as_tuple() + prev.as_tuple()
AsRecord(x) == [event_type |-> x.event_type, curr |-> AsTuple(x.curr), prev |-> IF x.prev = NoState THEN NoState ELSE AsTuple(x.prev)]

\* as_tuple reads every field: it raises on a field that was never assigned
AsTupleRaises(r) == r.side = Unset

\* UPSERT of the records of evs from j on, one after the other
RECURSIVE Upsert(_, _, _)
Upsert(tbl, evs, j) == IF j > Len(evs) THEN tbl ELSE Upsert(Put(tbl, Key(evs[j].curr), AsTuple(evs[j].curr)), evs, j + 1)

\* the statements of persist_postgres for one entity, in order
EntityPlan(e) ==
  << [op |-> "log", entity |-> e, type |-> "CREATE"], [op |-> "upsert", entity |-> e, type |-> "CREATE"],
     [op |-> "log", entity |-> e, type |-> "AMEND"], [op |-> "upsert", entity |-> e, type |-> "AMEND"],
     [op |-> "log", entity |-> e, type |-> "REMOVE"], [op |-> "delete", entity |-> e, type |-> "REMOVE"] >>

\* the steps of persist_delivery
TxBegin == [op |-> "begin", entity |-> "", type |-> ""]

TxMetadata == [op |-> "metadata", entity |-> "", type |-> ""]

TxCommit == [op |-> "commit", entity |-> "", type |-> ""]

\* persist_delivery with begin_transaction called after the entity writes
PersistPlanLateBegin == EntityPlan(Entities[1]) \o EntityPlan(Entities[2]) \o <<TxBegin, TxMetadata, TxCommit>>

\* Loader.persist_delivery: begin, every entity's statements, the delivery
\* row, commit
PersistPlan == <<TxBegin>> \o EntityPlan(Entities[1]) \o EntityPlan(Entities[2]) \o <<TxMetadata, TxCommit>>

\* batch_create / batch_amend: no two events of the list share a key
BatchOk(evs) == Cardinality({Key(evs[j].curr) : j \in 1..Len(evs)}) = Len(evs)

\* every list of events upserted in one multi-row statement
UpsertStatementsOneBatch(evs) == <<evs>>

\* the argument lists of the Target.execute(UPSERT) calls persist_postgres
\* makes for the events evs: one call with all of them, or one call per
\* event, in order, when two of them share a key
UpsertStatements(evs) == IF BatchOk(evs) THEN <<evs>> ELSE [j \in 1..Len(evs) |-> <<evs[j]>>]

\* INSERT ... ON CONFLICT DO UPDATE rejects a statement that holds two rows
\* with one key
UpsertRejected(rows) == ~BatchOk(rows)

\* the table after the UPSERT statements sts from n on
RECURSIVE UpsertAll(_, _, _)
UpsertAll(tbl, sts, n) == IF n > Len(sts) THEN tbl ELSE UpsertAll(Upsert(tbl, sts[n], 1), sts, n + 1)

\* does building the arguments of the statement, or the statement, raise
StatementRaises(st, evs) ==
  \/ st.op = "log" /\ \E j \in 1..Len(evs) : AsTupleRaises(evs[j].curr)
  \/ st.op = "upsert" /\ \E j \in 1..Len(evs) : AsTupleRaises(evs[j].curr)
  \/ st.op = "upsert" /\ \E n \in 1..Len(UpsertStatements(evs)) : UpsertRejected(UpsertStatements(evs)[n])

\* Target.execute: the database after the statement st with the events evs
ExecuteOn(db, st, evs) ==
  IF st.op = "log" THEN [db EXCEPT !.log[st.entity] = @ \cup {AsRecord(evs[j]) : j \in 1..Len(evs)}]
  ELSE IF st.op = "upsert" THEN [db EXCEPT !.rows[st.entity] = UpsertAll(@, UpsertStatements(evs), 1)]
  ELSE [db EXCEPT !.rows[st.entity] = [k \in (DOMAIN @) \ {Key(evs[j].curr) : j \in 1..Len(evs)} |-> @[k]]]

\* a result that has not been computed
NoResult == [none |-> TRUE]

\* the function variables in a specification that checks no function
FnOff == fn_in = NoResult /\ fn_out = NoResult

\* the loader variables in a specification that runs no loader
LoaderOff ==
  /\ loader = "none" /\ pc = "terminated" /\ stop = TRUE /\ cycles = 0
  /\ raised = FALSE /\ raised_at = "" /\ dry_run = FALSE /\ adjust = FALSE
  /\ files = [e \in EntitySet |-> <<>>] /\ ent_i = 0
  /\ delivery = [e \in EntitySet |-> NoEventsYet] /\ delivery_id = 0 /\ delivery_seq = 0
  /\ committed = EmptyDb /\ session = EmptyDb /\ in_progress = FALSE /\ tx_begun = FALSE
  /\ rollbacks = 0 /\ plan_i = 0
  /\ cycle_start = EmptyDb
  /\ latest_decision = 0 /\ tickers = <<>> /\ close_i = 0 /\ orders = <<>>
  /\ acted = <<>> /\ attempted = <<>> /\ accepted = <<>> /\ closed = <<>> /\ failed = {}
  /\ market_open = "unchecked"

\* ------------------------------------------------------------------------
\* The engine run on a batch, then run again on the same batch
\* ------------------------------------------------------------------------

\* upstream rows
SourceRows == {SourceRow(k, q) : k \in Keys, q \in RawVals}

\* batches of at most MaxLen rows, in arrival order
Batches == UNION {[1..n -> SourceRows] : n \in 0..MaxLen}

\* a stored row of an earlier delivery
StoredRow(k, q) == AsTuple([FromSource(SourceRow(k, q)) EXCEPT !.quantity = q, !.event_id = 0, !.delivery_id = 0])

\* prior states: Dict[Key, State] built by from_target from stored rows
PrevStates == UNION {{[k \in S |-> FromTarget(StoredRow(k, q[k]))] : q \in [S -> StoredVals]} : S \in SUBSET Keys}

\* the locals at the start of compute_events (events aliases prev)
EngineStart(f, p) ==
  /\ file = f
  /\ prev = p
  /\ curr = [j \in 1..Len(f) |-> FromSource(f[j])]
  /\ events = p
  /\ create = <<>>
  /\ amend = <<>>
  /\ remove = <<>>
  /\ it_event_id = NewIterator(Len(f))
  /\ i = 0
  /\ epc = "loop"

EngineInit ==
  /\ \E f \in Batches, p \in PrevStates : EngineStart(f, p)
  /\ event_seq = 0
  /\ run = 1
  /\ rerun = "none"
  /\ first_run = [CREATE |-> <<>>, AMEND |-> <<>>, REMOVE |-> <<>>]
  /\ LoaderOff
  /\ FnOff

\* the locals of the loop, as StepItem takes them
Locals == [events |-> events, create |-> create, amend |-> amend, it |-> it_event_id, seq |-> event_seq]

\* compute_events: one iteration of "for i, item in enumerate(curr)"
ProcessItem ==
  /\ epc = "loop"
  /\ i < Len(curr)
  /\ LET w == StepItem(Locals, curr[i + 1], run) IN
       /\ events' = w.events
       /\ create' = w.create
       /\ amend' = w.amend
       /\ it_event_id' = w.it
       /\ event_seq' = w.seq
       \* item.event_id and item.delivery_id are assigned on the object in curr
       /\ curr' = IF i + 1 \in DOMAIN curr /\ Key(curr[i + 1]) \in DOMAIN w.events
                      /\ Len(w.create) + Len(w.amend) > Len(create) + Len(amend)
                   THEN [curr EXCEPT ![i + 1] = w.events[Key(curr[i + 1])]]
                   ELSE curr
  /\ i' = i + 1
  /\ UNCHANGED <<file, prev, remove, epc, run, rerun, first_run>>
  /\ UNCHANGED <<loaderVars, fnVars>>

\* compute_events: the removal loop after the loop over curr, and the return
ComputeRemovals ==
  /\ epc = "loop"
  /\ i = Len(curr)
  /\ \E ord \in Orders(PrevKeys(events, curr)) :
       LET res == Removals(ord, 1, events, NewIterator(Len(ord)), event_seq, run) IN
         /\ remove' = res.remove
         /\ it_event_id' = res.it
         /\ event_seq' = res.seq
  /\ epc' = "done"
  /\ UNCHANGED <<file, prev, curr, events, create, amend, i, run, rerun, first_run>>
  /\ UNCHANGED <<loaderVars, fnVars>>

\* the working map without the keys of the REMOVE events
Pruned == [k \in (DOMAIN events) \ {Key(remove[j].curr) : j \in 1..Len(remove)} |-> events[k]]

\* compute_events called again on the same file with the prior state p
Restart(p) ==
  /\ prev' = p
  /\ curr' = [j \in 1..Len(file) |-> FromSource(file[j])]
  /\ events' = p
  /\ create' = <<>>
  /\ amend' = <<>>
  /\ remove' = <<>>
  /\ it_event_id' = NewIterator(Len(file))
  /\ i' = 0
  /\ epc' = "loop"
  \* what the first call returned
  /\ first_run' = [CREATE |-> create, AMEND |-> amend, REMOVE |-> remove]
  /\ UNCHANGED <<file, event_seq>>
  /\ UNCHANGED <<loaderVars, fnVars>>

\* second run on the same batch, prev = the map the first run left behind
RerunOnBaseline ==
  /\ epc = "done"
  /\ run = 1
  /\ run' = 2
  /\ rerun' = "baseline"
  /\ Restart(events)

\* second run on the same batch, prev = that map without the removed keys
RerunOnPruned ==
  /\ epc = "done"
  /\ run = 1
  /\ run' = 2
  /\ rerun' = "pruned"
  /\ Restart(Pruned)

EngineNext == ProcessItem \/ ComputeRemovals \/ RerunOnBaseline \/ RerunOnPruned

SpecEngine == EngineInit /\ [][EngineNext]_vars

\* ------------------------------------------------------------------------
\* Reconciliation properties
\* ------------------------------------------------------------------------

NoEvents == create = <<>> /\ amend = <<>> /\ remove = <<>>

\* records of the batch that share a key have the same content
SameContentPerKey ==
  \A a, b \in 1..Len(file) :
    Key(FromSource(file[a])) = Key(FromSource(file[b])) => Hash(FromSource(file[a])) = Hash(FromSource(file[b]))

\* C1 as stated: running the engine again on the same batch, with prev equal
\* to the baseline the first run left, emits no CREATE, AMEND or REMOVE.
C1_IdempotentOnBaseline == (run = 2 /\ rerun = "baseline" /\ epc = "done") => NoEvents

\* C1 as amended: when records of the batch that share a key have the same
\* content, running the engine again on the same batch, with prev equal to the
\* first run's baseline without the keys the first run removed, emits no
\* CREATE, AMEND or REMOVE.
C1_IdempotentOnPruned ==
  (run = 2 /\ rerun = "pruned" /\ epc = "done" /\ SameContentPerKey) => NoEvents

\* C1 witness: a second run that ended, after a first run that created,
\* amended and removed, on a batch that repeats a key.
C1_Witness ==
  /\ run = 2 /\ rerun = "pruned" /\ epc = "done" /\ SameContentPerKey
  /\ Len(first_run.CREATE) + Len(first_run.AMEND) > 0
  /\ Len(first_run.REMOVE) > 0
  /\ Len(file) > Cardinality(KeysOf(curr))

\* does the event e record the item r (same key and content) of delivery d
Records(e, r, d) == Key(e.curr) = Key(r) /\ Hash(e.curr) = Hash(r) /\ e.curr.delivery_id = d

\* C2: each record of curr, taken in order, yields exactly one outcome: a
\* CREATE with no prev when its key is not in the baseline, nothing when the
\* baseline entry has its hash, otherwise an AMEND whose prev is the baseline
\* entry; after a CREATE or AMEND the baseline entry of the key is the record.
C2_RollingClassification ==
  [][(epc = "loop" /\ i' = i + 1) =>
      LET r == curr[i + 1]
          k == Key(r)
      IN IF k \notin DOMAIN events
         THEN /\ Len(create') = Len(create) + 1
              /\ SubSeq(create', 1, Len(create)) = create
              /\ create'[Len(create')].event_type = "CREATE"
              /\ Records(create'[Len(create')], r, run)
              /\ create'[Len(create')].prev = NoState
              /\ amend' = amend
              /\ k \in DOMAIN events' /\ events'[k] = create'[Len(create')].curr
              /\ \A x \in DOMAIN events : events'[x] = events[x]
         ELSE IF Hash(events[k]) = Hash(r)
         THEN create' = create /\ amend' = amend /\ events' = events
         ELSE /\ Len(amend') = Len(amend) + 1
              /\ SubSeq(amend', 1, Len(amend)) = amend
              /\ amend'[Len(amend')].event_type = "AMEND"
              /\ Records(amend'[Len(amend')], r, run)
              /\ amend'[Len(amend')].prev = events[k]
              /\ create' = create
              /\ DOMAIN events' = DOMAIN events /\ events'[k] = amend'[Len(amend')].curr
              /\ \A x \in DOMAIN events \ {k} : events'[x] = events[x]
    ]_engineVars

\* C2 witness: an AMEND whose prev is a record of the same batch, and a
\* repeated record that yielded nothing.
C2_Witness ==
  /\ run = 1 /\ epc = "done" /\ Len(file) = 3
  /\ Len(create) = 1 /\ Len(amend) = 1
  /\ amend[1].prev = create[1].curr

\* the scenario of C3: prev empty, curr = [A(v1), A(v2)], v1 and v2 different
ChainedInput ==
  /\ run = 1
  /\ DOMAIN prev = {}
  /\ Len(file) = 2
  /\ Key(FromSource(file[1])) = Key(FromSource(file[2]))
  /\ Hash(FromSource(file[1])) # Hash(FromSource(file[2]))

\* C3: prev empty and curr = [A(v1), A(v2)] give exactly one CREATE of
\* (A, v1) and one AMEND with curr (A, v2) and prev (A, v1), and no REMOVE.
C3_ChainedAmend ==
  (ChainedInput /\ epc = "done") =>
    /\ Len(create) = 1
    /\ create[1].event_type = "CREATE"
    /\ Records(create[1], FromSource(file[1]), run)
    /\ create[1].prev = NoState
    /\ Len(amend) = 1
    /\ amend[1].event_type = "AMEND"
    /\ Records(amend[1], FromSource(file[2]), run)
    /\ amend[1].prev # NoState
    /\ Key(amend[1].prev) = Key(FromSource(file[1]))
    /\ Hash(amend[1].prev) = Hash(FromSource(file[1]))
    /\ remove = <<>>

\* C3 witness: the engine has finished on prev empty, curr = [A(v1), A(v2)].
C3_Witness == ChainedInput /\ epc = "done" /\ Len(amend) = 1

\* number of REMOVE events for the key k
RemovesOf(k) == Cardinality({j \in 1..Len(remove) : remove[j].event_type = "REMOVE" /\ Key(remove[j].curr) = k})

\* the example of C4: prev = {A: v1, B: v2}, curr = [A(v1)]
RemovalExample ==
  /\ run = 1
  /\ DOMAIN prev = Keys
  /\ Len(file) = 1
  /\ Hash(FromSource(file[1])) = Hash(prev[Key(FromSource(file[1]))])
  /\ \A k \in Keys : prev[k].quantity # None

\* C4: a key gets exactly one REMOVE when it is in the prior state and not
\* in curr, and none otherwise; prev = {A: v1, B: v2}, curr = [A(v1)] gives
\* one REMOVE, for B, and no event for A.
C4_RemovalIsKeyDifference ==
  epc = "done" =>
    /\ \A k \in Keys :
         RemovesOf(k) = IF k \in DOMAIN prev /\ k \notin KeysOf(curr) THEN 1 ELSE 0
    /\ Len(remove) = Cardinality((DOMAIN prev) \ KeysOf(curr))
    /\ \A j \in 1..Len(remove) : remove[j].prev = prev[Key(remove[j].curr)]
    /\ RemovalExample => (create = <<>> /\ amend = <<>> /\ Len(remove) = 1)

\* C4 witness: the example has been run, and B, whose value is unchanged,
\* was removed.
C4_Witness == RemovalExample /\ epc = "done" /\ Len(remove) = 1

\* ------------------------------------------------------------------------
\* The delivery cycle (Loader.run_service, run_once, process,
\* persist_delivery, persist_postgres)
\* ------------------------------------------------------------------------

\* an except clause that logs and lets the loop go on
HandlerContinues == FALSE

\* the except clause of run_service: stop = True
HandlerStops == TRUE

\* where run_once goes after the persistence step
AfterPersist == IF loader = "monitor" THEN "publish" ELSE "sleep"

\* the steps of run_once whose call can raise
Fallible == {"fetch", "delivery_id", "process", "persist", "publish", "decisions", "decide", "close", "capital"}

\* the compute_events locals in a specification that runs a loader
EngineOff ==
  /\ EngineStart(<<>>, EmptyDict)
  /\ event_seq = 0
  /\ run = 1
  /\ rerun = "none"
  /\ first_run = NoEventsYet

\* the loader l after setup and connect
LoaderInit(l) ==
  /\ FnOff
  /\ loader = l /\ pc = "loop" /\ stop = FALSE /\ cycles = 0
  /\ raised = FALSE /\ raised_at = ""
  /\ dry_run \in BOOLEAN
  /\ adjust \in (IF l = "orders" THEN BOOLEAN ELSE {FALSE})
  /\ files = [e \in EntitySet |-> <<>>] /\ ent_i = 0
  /\ delivery = [e \in EntitySet |-> NoEventsYet] /\ delivery_id = 0 /\ delivery_seq = 0
  /\ committed = EmptyDb /\ session = EmptyDb /\ in_progress = FALSE /\ tx_begun = FALSE
  /\ rollbacks = 0 /\ plan_i = 0
  /\ cycle_start = EmptyDb
  /\ latest_decision \in (IF l = "orders" THEN {0, 1} ELSE {0})
  /\ tickers = <<>> /\ close_i = 0 /\ orders = <<>>
  /\ acted = <<>> /\ attempted = <<>> /\ accepted = <<>> /\ closed = <<>> /\ failed = {}
  /\ market_open = "unchecked"
  /\ EngineOff

\* an exception raised at the place at leaves run_once
Raise(at) == pc' = "handler" /\ raised' = TRUE /\ raised_at' = at

\* run_service: "while not stop: try: self.run_once()" enters a cycle
EnterCycle(first) ==
  /\ pc = "loop" /\ ~stop /\ cycles < MaxCycles
  /\ cycles' = cycles + 1
  /\ pc' = first
  /\ tx_begun' = FALSE
  /\ cycle_start' = committed
  \* the locals of run_once, and the broker calls of the cycle
  /\ files' = [e \in EntitySet |-> <<>>]
  /\ delivery' = [e \in EntitySet |-> NoEventsYet]
  /\ ent_i' = 0
  /\ tickers' = <<>> /\ close_i' = 0 /\ orders' = <<>>
  /\ attempted' = <<>> /\ accepted' = <<>> /\ closed' = <<>> /\ failed' = {} /\ acted' = acted
  /\ market_open' = "unchecked"
  /\ UNCHANGED <<fnVars, cfgVars, excVars, delivery_id, delivery_seq, txVars, stop, latest_decision, engineVars>>

\* the call run_once makes at pc (to the source, the broker, the target or
\* the message bus) fails
Fail ==
  /\ pc \in Fallible
  /\ Raise(pc)
  /\ UNCHANGED <<fnVars, cfgVars, deliveryVars, txVars, brokerVars, stop, cycles, tx_begun, cycle_start, latest_decision, engineVars>>

\* run_service: "except Exception as e: ... stop = True"
Handle ==
  /\ pc = "handler"
  /\ stop' = HandlerStops
  /\ pc' = "loop"
  /\ UNCHANGED <<fnVars, cfgVars, excVars, deliveryVars, txVars, brokerVars, cycles, tx_begun, cycle_start, latest_decision, engineVars>>

\* run: tear_down after the loop; Target.disconnect closes the connection,
\* which discards what was not committed
TearDown ==
  /\ pc = "loop" /\ stop
  /\ pc' = "terminated"
  /\ session' = committed
  /\ in_progress' = FALSE
  /\ UNCHANGED <<fnVars, cfgVars, excVars, deliveryVars, committed, rollbacks, plan_i, brokerVars, stop, cycles, tx_begun, cycle_start, latest_decision, engineVars>>

\* run_service: time.sleep between two cycles; upstream may deliver meanwhile
Sleep ==
  /\ pc = "sleep"
  /\ pc' = "loop"
  /\ \E d \in {latest_decision, latest_decision + 1} :
       /\ d <= MaxDecision
       /\ loader = "monitor" => d = latest_decision
       /\ latest_decision' = d
  /\ UNCHANGED <<fnVars, cfgVars, excVars, deliveryVars, txVars, brokerVars, stop, cycles, tx_begun, cycle_start, engineVars>>

\* Target.get_next_delivery_id, and the empty delivery dict
GetNextDeliveryId ==
  /\ pc = "delivery_id"
  /\ delivery_seq' = delivery_seq + 1
  /\ delivery_id' = delivery_seq + 1
  /\ delivery' = [e \in EntitySet |-> NoEventsYet]
  /\ ent_i' = 1
  /\ pc' = "process"
  /\ UNCHANGED <<fnVars, cfgVars, excVars, files, txVars, brokerVars, stop, cycles, tx_begun, cycle_start, latest_decision, engineVars>>

\* run_once calling persist_delivery whatever the dry_run flag
AfterProcessAlways(dry) == "persist"

\* run_once after the last process call: persist_delivery `if not
\* self._dry_run`, else the end of the cycle
AfterProcess(dry) == IF dry THEN AfterPersist ELSE "persist"

\* Loader.process for the entity at ent_i: the stored rows of the keys of the
\* file are the prior state; an empty key list makes the LOAD_STATE query
\* raise (its %s placeholder gets no argument)
ProcessEntity ==
  /\ pc = "process"
  /\ LET e == Entities[ent_i]
         f == files[e]
         recs == [j \in 1..Len(f) |-> FromSource(f[j])]
         p == GetCurrentState(session, e, ListIdsFromSource(f))
     IN IF Len(f) = 0
        THEN Raise("load_state") /\ UNCHANGED <<delivery, ent_i, plan_i, event_seq>>
        ELSE /\ \E ord \in Orders(PrevKeys(EventsAfterLoop(recs, p, delivery_id, event_seq), recs)) :
                  LET ev == ComputeEvents(recs, p, delivery_id, event_seq, ord) IN
                    /\ delivery' = [delivery EXCEPT ![e] = [CREATE |-> ev.CREATE, AMEND |-> ev.AMEND, REMOVE |-> ev.REMOVE]]
                    /\ event_seq' = ev.seq
             /\ IF ent_i < Len(Entities)
                THEN ent_i' = ent_i + 1 /\ pc' = "process" /\ plan_i' = plan_i
                ELSE ent_i' = ent_i /\ plan_i' = 1 /\ pc' = AfterProcess(dry_run)
             /\ UNCHANGED excVars
  /\ UNCHANGED <<fnVars, cfgVars, files, delivery_id, delivery_seq, committed, session, in_progress, rollbacks, brokerVars, stop, cycles, tx_begun, cycle_start, latest_decision, engineLocals>>

\* Target.begin_transaction
BeginTransaction ==
  /\ pc = "persist" /\ PersistPlan[plan_i].op = "begin"
  /\ in_progress' = TRUE
  /\ tx_begun' = TRUE
  /\ plan_i' = plan_i + 1
  /\ UNCHANGED <<fnVars, cfgVars, excVars, deliveryVars, committed, session, rollbacks, brokerVars, pc, stop, cycles, cycle_start, latest_decision, engineVars>>

\* one Target.execute of persist_postgres: APPEND_LOG, UPSERT or DELETE
Execute ==
  /\ pc = "persist" /\ PersistPlan[plan_i].op \in {"log", "upsert", "delete"}
  /\ LET st == PersistPlan[plan_i]
         evs == delivery[st.entity][st.type]
     IN IF StatementRaises(st, evs)
        THEN Raise("as_record") /\ UNCHANGED <<committed, session, plan_i>>
        ELSE /\ session' = ExecuteOn(session, st, evs)
             /\ committed' = IF AutoCommit THEN session' ELSE committed
             /\ plan_i' = plan_i + 1
             /\ UNCHANGED <<pc, excVars>>
  /\ UNCHANGED <<fnVars, cfgVars, deliveryVars, in_progress, rollbacks, brokerVars, stop, cycles, tx_begun, cycle_start, latest_decision, engineVars>>

\* Target.persist_delivery: the row of the delivery table
PersistDeliveryMetadata ==
  /\ pc = "persist" /\ PersistPlan[plan_i].op = "metadata"
  /\ session' = [session EXCEPT !.meta = @ \cup {delivery_id}]
  /\ committed' = IF AutoCommit THEN session' ELSE committed
  /\ plan_i' = plan_i + 1
  /\ UNCHANGED <<fnVars, cfgVars, excVars, deliveryVars, in_progress, rollbacks, brokerVars, pc, stop, cycles, tx_begun, cycle_start, latest_decision, engineVars>>

\* Target.commit_transaction, and the return of persist_delivery
CommitTransaction ==
  /\ pc = "persist" /\ PersistPlan[plan_i].op = "commit"
  /\ committed' = session
  /\ in_progress' = FALSE
  /\ plan_i' = 0
  /\ pc' = AfterPersist
  /\ UNCHANGED <<fnVars, cfgVars, excVars, deliveryVars, session, rollbacks, brokerVars, stop, cycles, tx_begun, cycle_start, latest_decision, engineVars>>

\* ------------------------------------------------------------------------
\* The monitor loader (paper-engine-monitor, Loader.run_once)
\* ------------------------------------------------------------------------

\* get_position_records: one row per position of the broker, all with the
\* timestamp ts of the cycle
PositionBatches(ts) ==
  UNION {{[j \in 1..Len(o) |-> SourceRow(<<1, o[j], ts>>, q[o[j]])] : o \in Orders(S), q \in [S -> Quantities]} : S \in SUBSET Assets}

\* control_records: (portfolio_id, datetime.utcnow())
MonitorControl(ts) == <<SourceRow(ControlKey, ts)>>

MonitorEnter == EnterCycle("fetch")

\* run_once up to get_next_delivery_id: the portfolio id, then the records
\* of the cycle read from the broker
FetchPositions ==
  /\ pc = "fetch"
  /\ \/ \* no portfolio in the account: return
        /\ pc' = "sleep"
        /\ UNCHANGED files
     \/ \E b \in PositionBatches(cycles) :
          /\ files' = [files EXCEPT !["portfolio_control"] = MonitorControl(cycles), !["position"] = b]
          /\ pc' = "delivery_id"
  /\ UNCHANGED <<fnVars, cfgVars, excVars, ent_i, delivery, delivery_id, delivery_seq, txVars, brokerVars, stop, cycles, tx_begun, cycle_start, latest_decision, engineVars>>

\* publish_messages and increment_counters, after the persistence step
PublishMessages ==
  /\ pc = "publish"
  /\ pc' = "sleep"
  /\ UNCHANGED <<fnVars, cfgVars, excVars, deliveryVars, txVars, brokerVars, stop, cycles, tx_begun, cycle_start, latest_decision, engineVars>>

MonitorInit == LoaderInit("monitor")

MonitorNext ==
  \/ MonitorEnter \/ FetchPositions \/ GetNextDeliveryId \/ ProcessEntity
  \/ BeginTransaction \/ Execute \/ PersistDeliveryMetadata \/ CommitTransaction
  \/ PublishMessages \/ Sleep \/ Fail \/ Handle \/ TearDown

SpecMonitor == MonitorInit /\ [][MonitorNext]_vars

\* ------------------------------------------------------------------------
\* The orders loader (paper-engine-orders, Loader.run_once, broker/alpaca.py)
\* ------------------------------------------------------------------------

\* the order lists run_once submits: closing orders (sell) before opening
\* orders (buy), at most one order per ticker of A
OrderLists(A) ==
  UNION {{[j \in 1..Len(o) |-> [symbol |-> o[j], side |-> sd[o[j]]]] : o \in Orders(S), sd \in [S -> {"sell", "buy"}]} : S \in SUBSET A}

ClosingFirst(os) == \A a, b \in 1..Len(os) : (a < b) => ~(os[a].side = "buy" /\ os[b].side = "sell")

\* the elements of os whose index is not in F, in order
Keep(os, F) ==
  LET idx == {j \in 1..Len(os) : j \notin F}
  IN [n \in 1..Cardinality(idx) |-> os[CHOOSE j \in idx : Cardinality({x \in idx : x <= j}) = n]]

\* the first index of os in F
FirstIn(os, F) == CHOOSE j \in F : \A x \in F : j <= x

\* a submit loop without the try/except: the first failure ends the batch
SubmitOutcomeNoCatch(os, F) ==
  IF F = {} THEN [attempted |-> os, accepted |-> os, raised |-> FALSE]
  ELSE [attempted |-> SubSeq(os, 1, FirstIn(os, F)), accepted |-> SubSeq(os, 1, FirstIn(os, F) - 1), raised |-> TRUE]

\* Alpaca.submit_orders on the orders os when the submissions at the
\* indices F fail: each failure is caught and the loop continues
SubmitOutcome(os, F) == [attempted |-> os, accepted |-> Keep(os, F), raised |-> FALSE]

\* orders_records: the records of the weighting for the orders, then the
\* closed_records of close_positions
OrdersRecords(os, cl, ts) ==
  [j \in 1..Len(os) |-> SourceRow(<<1, os[j].symbol, ts>>, 1)] \o [j \in 1..Len(cl) |-> SourceRow(<<1, cl[j], ts>>, 1)]

\* the weight of the delivery id in the value field of an orders control
\* record (above every timestamp)
TsBase == MaxCycles + 2

\* control_records: (portfolio_id, latest_decision_delivery_id,
\* latest_decision_datadate, datetime.utcnow()); the value field holds the
\* delivery id read and the timestamp ts, as d * TsBase + ts
OrdersControl(d, ts) == <<SourceRow(ControlKey, d * TsBase + ts)>>

\* last_decision_metadata[0][1]: the delivery id in a stored control row
LastRead(row) == row.quantity \div TsBase

OrdersEnter == EnterCycle("market")

\* run_once going on with the cycle whatever check_market_open returns
MarketCheckIgnored ==
  /\ pc = "market"
  /\ \E open \in BOOLEAN : market_open' = IF open THEN "open" ELSE "closed"
  /\ pc' = "decisions"
  /\ UNCHANGED <<fnVars, cfgVars, excVars, deliveryVars, txVars, tickers, close_i, orders, attempted, accepted, closed, failed, acted, stop, cycles, tx_begun, cycle_start, latest_decision, engineVars>>

\* run_once: check_market_open, return when the market is closed
MarketCheck ==
  /\ pc = "market"
  /\ \E open \in BOOLEAN :
       /\ market_open' = IF open THEN "open" ELSE "closed"
       /\ pc' = IF open THEN "decisions" ELSE "sleep"
  /\ UNCHANGED <<fnVars, cfgVars, excVars, deliveryVars, txVars, tickers, close_i, orders, attempted, accepted, closed, failed, acted, stop, cycles, tx_begun, cycle_start, latest_decision, engineVars>>

\* check_new_decisions taking the latest decision for new in every cycle
CheckNewDecisionsAlways ==
  /\ pc = "decisions"
  /\ pc' = "decide"
  /\ UNCHANGED <<fnVars, cfgVars, excVars, deliveryVars, txVars, brokerVars, stop, cycles, tx_begun, cycle_start, latest_decision, engineVars>>

\* Loader.check_new_decisions, return when there is no new decision
CheckNewDecisions ==
  /\ pc = "decisions"
  /\ LET last == session.rows["orders_control"] IN
       pc' = IF latest_decision = 0 THEN "sleep"
             ELSE IF ControlKey \notin DOMAIN last THEN "decide"
             ELSE IF adjust \/ LastRead(last[ControlKey]) < latest_decision THEN "decide"
             ELSE "sleep"
  /\ UNCHANGED <<fnVars, cfgVars, excVars, deliveryVars, txVars, brokerVars, stop, cycles, tx_begun, cycle_start, latest_decision, engineVars>>

\* get_latest_decision, check_tradable, get_positions: the tickers of the
\* REMOVE decisions that are held, to be closed
GetLatestDecision ==
  /\ pc = "decide"
  /\ \E S \in SUBSET Assets : \E o \in Orders(S) :
       /\ tickers' = o
       /\ pc' = IF o = <<>> THEN "capital" ELSE "close"
  /\ close_i' = 1
  /\ UNCHANGED <<fnVars, cfgVars, excVars, deliveryVars, txVars, orders, failed, attempted, accepted, acted, closed, market_open, stop, cycles, tx_begun, cycle_start, latest_decision, engineVars>>

\* Alpaca.close_positions: trading_client.close_position for one ticker
ClosePosition ==
  /\ pc = "close"
  /\ closed' = Append(closed, tickers[close_i])
  /\ close_i' = close_i + 1
  /\ pc' = IF close_i = Len(tickers) THEN "capital" ELSE "close"
  /\ UNCHANGED <<fnVars, cfgVars, excVars, deliveryVars, txVars, tickers, orders, attempted, accepted, acted, failed, market_open, stop, cycles, tx_begun, cycle_start, latest_decision, engineVars>>

\* check_shortable, get_account_capital, Weighting.setup, get_orders_params:
\* the closing and opening orders of the open decisions
SizeOrders ==
  /\ pc = "capital"
  /\ \E os \in OrderLists(Assets \ {tickers[j] : j \in 1..Len(tickers)}) :
       /\ ClosingFirst(os)
       /\ orders' = os
  /\ pc' = "submit"
  /\ UNCHANGED <<fnVars, cfgVars, excVars, deliveryVars, txVars, tickers, close_i, attempted, accepted, acted, closed, failed, market_open, stop, cycles, tx_begun, cycle_start, latest_decision, engineVars>>

\* submit_orders(closing_orders), submit_orders(opening_orders), then the
\* records of the cycle
SubmitOrders ==
  /\ pc = "submit"
  /\ \E F \in SUBSET (1..Len(orders)) :
       LET out == SubmitOutcome(orders, F) IN
         /\ attempted' = attempted \o out.attempted
         /\ accepted' = accepted \o out.accepted
         /\ failed' = F
         /\ acted' = IF orders # <<>> THEN Append(acted, latest_decision) ELSE acted
         /\ IF out.raised
            THEN Raise("submit_order") /\ UNCHANGED files
            ELSE /\ files' = [files EXCEPT !["orders"] = OrdersRecords(orders, tickers, cycles),
                                           !["orders_control"] = OrdersControl(latest_decision, cycles)]
                 /\ pc' = "delivery_id"
                 /\ UNCHANGED excVars
  /\ UNCHANGED <<fnVars, cfgVars, ent_i, delivery, delivery_id, delivery_seq, txVars, tickers, close_i, orders, closed, market_open, stop, cycles, tx_begun, cycle_start, latest_decision, engineVars>>

OrdersInit == LoaderInit("orders")

OrdersNext ==
  \/ OrdersEnter \/ MarketCheck \/ CheckNewDecisions \/ GetLatestDecision \/ ClosePosition
  \/ SizeOrders \/ SubmitOrders \/ GetNextDeliveryId \/ ProcessEntity
  \/ BeginTransaction \/ Execute \/ PersistDeliveryMetadata \/ CommitTransaction
  \/ Sleep \/ Fail \/ Handle \/ TearDown

SpecOrders == OrdersInit /\ [][OrdersNext]_vars

\* ------------------------------------------------------------------------
\* Delivery cycle properties
\* ------------------------------------------------------------------------

\* run_once has returned or raised: the cycle is over
CycleEnded == pc \in {"handler", "sleep", "loop", "terminated"}

\* the key (1, AAPL, T1) of the scenario of C5
AaplAtT1 == <<1, "AAPL", 1>>

\* a call to the source, the broker, the target or the message bus failed
CallFailed == raised /\ raised_at \in Fallible

\* C5 as stated: when no call fails, delivery 1 with curr =
\* [Position(1, AAPL, T1, 10)] and an empty prior state persists one CREATE
\* and removes nothing; a following delivery 2 with curr = [] computes
\* exactly one REMOVE, for (1, AAPL, T1), and the stored row is deleted.
C5_TwoDeliveryScenario ==
  /\ (cycles = 1 /\ ~dry_run /\ files["position"] = <<SourceRow(AaplAtT1, 10)>> /\ pc = "sleep") =>
       /\ Len(delivery["position"].CREATE) = 1
       /\ delivery["position"].REMOVE = <<>>
       /\ AaplAtT1 \in DOMAIN committed.rows["position"]
  /\ (cycles = 2 /\ CycleEnded /\ ~CallFailed
        /\ files["portfolio_control"] # <<>> /\ files["position"] = <<>>
        /\ DOMAIN cycle_start.rows["position"] = {AaplAtT1}) =>
       /\ Len(delivery["position"].REMOVE) = 1
       /\ Key(delivery["position"].REMOVE[1].curr) = AaplAtT1
       /\ AaplAtT1 \notin DOMAIN committed.rows["position"]

\* every write of the delivery d is in the database db: the delivery row,
\* and per entity kind the log row of each event, the row of each created or
\* amended key, and no row for a removed key
Delivered(db, d) ==
  /\ d \in db.meta
  /\ \A n \in 1..Len(Entities) : \A t \in {"CREATE", "AMEND", "REMOVE"} :
       LET e == Entities[n]
           evs == delivery[e][t]
       IN \A j \in 1..Len(evs) :
            /\ \E l \in db.log[e] : l.event_type = t /\ l.curr.event_id = evs[j].curr.event_id /\ l.curr.delivery_id = d
            /\ t # "REMOVE" => (Key(evs[j].curr) \in DOMAIN db.rows[e] /\ db.rows[e][Key(evs[j].curr)].delivery_id = d)
            /\ t = "REMOVE" => Key(evs[j].curr) \notin DOMAIN db.rows[e]

\* no write of the delivery d is in the database db
NoTrace(db, d) ==
  /\ d \notin db.meta
  /\ \A n \in 1..Len(Entities) :
       /\ \A l \in db.log[Entities[n]] : l.curr.delivery_id # d
       /\ \A k \in DOMAIN db.rows[Entities[n]] : db.rows[Entities[n]][k].delivery_id # d

\* C6: the database holds either none of the writes of the cycle's delivery
\* (it is as it was when the cycle began) or all of them (every entity
\* kind's log rows, upserts and deletes, and the delivery row); and a
\* delivery whose delivery row is not in the database has left no other
\* row in it.
C6_AtomicDelivery ==
  /\ committed = cycle_start \/ (Delivered(committed, delivery_id) /\ committed = session)
  /\ \A d \in 1..delivery_seq : d \in committed.meta \/ NoTrace(committed, d)

\* C6 witness: after a delivery that was committed in full, a cycle failed
\* inside its transaction with writes made, and none of them is committed.
C6_Witness ==
  /\ raised /\ raised_at = "persist" /\ tx_begun /\ pc = "loop" /\ stop
  /\ session # committed /\ committed = cycle_start
  /\ committed.meta # {}
  /\ \E e \in EntitySet : session.log[e] # committed.log[e]

\* C7 as stated: when an exception is raised after the transaction has begun
\* and before it is committed, a rollback has been issued on the target and
\* the target is no longer marked as in a transaction when the cycle ends.
C7_RollbackOnFailure ==
  (raised /\ raised_at \in {"persist", "as_record"} /\ tx_begun /\ CycleEnded) => (rollbacks > 0 /\ ~in_progress)

\* C8 as stated: when an exception is raised in a cycle before the
\* transaction begins, no order was submitted, no position was closed and
\* nothing was written to the database.
C8_NoSideEffects ==
  (raised /\ ~tx_begun) =>
    (attempted = <<>> /\ closed = <<>> /\ session = cycle_start /\ committed = cycle_start)

\* C8 as amended: when an exception is raised in a cycle before the
\* transaction begins, the cycle has written nothing to the tables of the
\* database: no entity row, no log row and no delivery row, neither
\* committed nor pending in the session.
C8_NoWriteBeforeTransaction ==
  (raised /\ ~tx_begun) => (session = cycle_start /\ committed = cycle_start)

\* C8 witness: a cycle closed a position and submitted an order, and then
\* raised before begin_transaction.
C8_Witness ==
  /\ raised /\ ~tx_begun /\ raised_at \in {"delivery_id", "process", "load_state"}
  /\ closed # <<>> /\ accepted # <<>>
  /\ session = cycle_start

\* C9: once a cycle has raised, the loop is stopped when control is back at
\* its head, no further cycle is started, and no further order is submitted
\* and no further position is closed.
C9_CycleFatalStop ==
  [][raised =>
      /\ (pc = "loop" => stop)
      /\ cycles' = cycles
      /\ attempted' = attempted /\ closed' = closed
      /\ delivery_seq' = delivery_seq
      /\ raised'
    ]_vars

\* C9 witness: a cycle that had submitted orders raised, and the loader
\* terminated with cycles left to run.
C9_Witness == raised /\ pc = "terminated" /\ stop /\ cycles < MaxCycles /\ attempted # <<>>

\* C10: submit_orders attempts every order of the batch whichever of them
\* fail, the orders that did not fail are accepted, in order, and run_once
\* goes on to get_next_delivery_id, process and the persistence step.
C10_OrderErrorIsolation ==
  [][pc = "submit" =>
      /\ attempted' = orders
      /\ Len(accepted') = Len(orders) - Cardinality(failed')
      /\ \A j \in 1..Len(orders) : j \in failed' \/ (\E n \in 1..Len(accepted') : accepted'[n] = orders[j])
      /\ pc' = "delivery_id"
      /\ ~raised'
    ]_vars

\* C10 witness: the first of two orders failed, the second was accepted,
\* and the delivery of the cycle was persisted.
C10_Witness ==
  /\ Len(orders) = 2 /\ failed = {1} /\ accepted = <<orders[2]>>
  /\ pc = "sleep" /\ delivery_id \in committed.meta /\ committed # cycle_start
  /\ Len(delivery["orders"].CREATE) = 2

\* ------------------------------------------------------------------------
\* persist_postgres on the events of a batch (Loader.compute_events, then
\* Loader.persist_postgres on what it returned)
\* ------------------------------------------------------------------------

\* the target whose state table of the entity e holds the prior state p
DbWith(e, p) == [EmptyDb EXCEPT !.rows[e] = [k \in DOMAIN p |-> AsTuple(p[k])]]

\* the events compute_events returned, by event type
EventsOf(t) == IF t = "CREATE" THEN create ELSE IF t = "AMEND" THEN amend ELSE remove

\* a batch and a prior state, stored in the position table
PersistInit ==
  /\ \E f \in Batches, p \in PrevStates :
       /\ EngineStart(f, p)
       /\ session = DbWith("position", p)
       /\ committed = DbWith("position", p)
       /\ cycle_start = DbWith("position", p)
  /\ event_seq = 0
  /\ run = 1
  /\ rerun = "none"
  /\ first_run = NoEventsYet
  /\ FnOff
  /\ loader = "none" /\ pc = "terminated" /\ stop = TRUE /\ cycles = 0
  /\ raised = FALSE /\ raised_at = "" /\ dry_run = FALSE /\ adjust = FALSE
  /\ files = [e \in EntitySet |-> <<>>] /\ ent_i = 0
  /\ delivery = [e \in EntitySet |-> NoEventsYet] /\ delivery_id = 0 /\ delivery_seq = 0
  /\ in_progress = FALSE /\ tx_begun = FALSE
  /\ rollbacks = 0 /\ plan_i = 1
  /\ latest_decision = 0 /\ tickers = <<>> /\ close_i = 0 /\ orders = <<>>
  /\ acted = <<>> /\ attempted = <<>> /\ accepted = <<>> /\ closed = <<>> /\ failed = {}
  /\ market_open = "unchecked"

\* one statement of persist_postgres on the events compute_events returned
PersistStatement ==
  /\ epc = "done"
  /\ LET st == EntityPlan("position")[plan_i]
         evs == EventsOf(st.type)
     IN IF StatementRaises(st, evs)
        THEN /\ epc' = "raised"
             /\ UNCHANGED <<session, plan_i>>
        ELSE /\ session' = ExecuteOn(session, st, evs)
             /\ plan_i' = IF plan_i = Len(EntityPlan("position")) THEN plan_i ELSE plan_i + 1
             /\ epc' = IF plan_i = Len(EntityPlan("position")) THEN "persisted" ELSE "done"
  /\ UNCHANGED <<file, prev, curr, events, create, amend, remove, it_event_id, event_seq, i, run, rerun, first_run>>
  /\ UNCHANGED <<fnVars, cfgVars, excVars, deliveryVars, committed, in_progress, rollbacks, brokerVars, pc, stop, cycles, tx_begun, cycle_start, latest_decision>>

PersistNext == ProcessItem \/ ComputeRemovals \/ PersistStatement

SpecPersist == PersistInit /\ [][PersistNext]_vars

\* the last event of evs with the key k
LastWithKey(evs, k) ==
  evs[CHOOSE j \in 1..Len(evs) : Key(evs[j].curr) = k /\ \A x \in 1..Len(evs) : Key(evs[x].curr) = k => x <= j]

\* C11: when two events of a list to upsert share a key, persist_postgres
\* issues one single-row UPSERT per event, in the order of the list, and no
\* multi-row statement; and once persist_postgres is through, the row stored
\* for a key equals the last record upserted for that key.
C11_BatchCollisionFallback ==
  /\ \A t \in {"CREATE", "AMEND"} :
       (epc \in {"done", "persisted", "raised"} /\ ~BatchOk(EventsOf(t))) =>
         /\ Len(UpsertStatements(EventsOf(t))) = Len(EventsOf(t))
         /\ \A j \in 1..Len(EventsOf(t)) : UpsertStatements(EventsOf(t))[j] = <<EventsOf(t)[j]>>
  /\ epc = "raised" => remove # <<>>
  /\ epc = "persisted" =>
       \A k \in {Key(amend[j].curr) : j \in 1..Len(amend)} :
         /\ k \in DOMAIN session.rows["position"]
         /\ session.rows["position"][k] = AsTuple(LastWithKey(amend, k).curr)

\* C11 witness: two AMEND records of one key with different values were
\* upserted, and the row of the key holds the second.
C11_Witness ==
  /\ epc = "persisted" /\ Len(amend) = 2
  /\ Key(amend[1].curr) = Key(amend[2].curr)
  /\ amend[1].curr.quantity # amend[2].curr.quantity
  /\ session.rows["position"][Key(amend[2].curr)] = AsTuple(amend[2].curr)

\* ------------------------------------------------------------------------
\* The orders model: Orders, OrdersLog, OrdersControlLog
\* ------------------------------------------------------------------------

\* the decision of a strategy record: 1 long, -1 short; the side of an order
Decisions == {1, 0 - 1}

\* the value fields of Orders, in field order
OrdersFields ==
  <<"portfolio_id", "side", "asset_id_type", "asset_id", "order_ts",
    "target_wgt", "real_wgt", "quantity", "notional">>

\* the value fields of OrdersControl, in field order
OrdersControlFields ==
  <<"portfolio_id", "last_read_delivery_id", "last_decision_datadate", "last_rebal_ts">>

\* Orders.hash with the identifiers mixed in
OrdersHashWithIds(r) ==
  <<r.portfolio_id, r.side, r.asset_id_type, r.asset_id, r.order_ts,
    r.target_wgt, r.real_wgt, r.quantity, r.notional, r.event_id, r.delivery_id>>

\* Orders.hash: the nine value fields, formatted in field order
OrdersHash(r) ==
  <<r.portfolio_id, r.side, r.asset_id_type, r.asset_id, r.order_ts,
    r.target_wgt, r.real_wgt, r.quantity, r.notional>>

\* record[j] if record[j] else None
OrNone(v) == IF v = 0 \/ v = None THEN None ELSE v

\* Orders.from_source
OrdersFromSource(record) ==
  [event_id |-> None, delivery_id |-> None,
   portfolio_id |-> record.portfolio_id, side |-> record.side,
   asset_id_type |-> record.asset_id_type, asset_id |-> record.asset_id,
   order_ts |-> record.order_ts,
   target_wgt |-> OrNone(record.target_wgt), real_wgt |-> OrNone(record.real_wgt),
   quantity |-> OrNone(record.quantity), notional |-> OrNone(record.notional)]

\* Orders.from_target: the stored hash is read and dropped
OrdersFromTarget(record) ==
  [event_id |-> record.event_id, delivery_id |-> record.delivery_id,
   portfolio_id |-> record.portfolio_id, side |-> record.side,
   asset_id_type |-> record.asset_id_type, asset_id |-> record.asset_id,
   order_ts |-> record.order_ts,
   target_wgt |-> OrNone(record.target_wgt), real_wgt |-> OrNone(record.real_wgt),
   quantity |-> OrNone(record.quantity), notional |-> OrNone(record.notional)]

\* Orders.as_tuple
OrdersAsTuple(r) ==
  [portfolio_id |-> r.portfolio_id, side |-> r.side, asset_id_type |-> r.asset_id_type,
   asset_id |-> r.asset_id, order_ts |-> r.order_ts, target_wgt |-> r.target_wgt,
   real_wgt |-> r.real_wgt, quantity |-> r.quantity, notional |-> r.notional,
   hash |-> OrdersHash(r), event_id |-> r.event_id, delivery_id |-> r.delivery_id]

\* Orders.removal_instance: the key and the identifiers; the other fields
\* keep the class defaults, side and asset_id_type have none
OrdersRemovalInstance(event_id, did, key) ==
  [event_id |-> event_id, delivery_id |-> did,
   portfolio_id |-> key[1], side |-> Unset, asset_id_type |-> Unset,
   asset_id |-> key[2], order_ts |-> key[3],
   target_wgt |-> None, real_wgt |-> None, quantity |-> None, notional |-> None]

\* "1" if a != b else "0"
Bit(a, b) == IF a # b THEN "1" ELSE "0"

\* OrdersLog.mask with the comparison of real_wgt pasted over that of quantity
OrdersLogMaskPasted(x) ==
  IF x.prev = NoState \/ x.event_type \in {"CREATE", "REMOVE", "RECREATE"}
    THEN <<"1", "1", "1", "1", "1", "1", "1", "1", "1">>
    ELSE IF x.event_type = "POINTLESS_AMEND"
      THEN <<"0", "0", "0", "0", "0", "0", "0", "0", "0">>
      ELSE << Bit(x.curr.portfolio_id, x.prev.portfolio_id),
              Bit(x.curr.side, x.prev.side),
              Bit(x.curr.asset_id_type, x.prev.asset_id_type),
              Bit(x.curr.asset_id, x.prev.asset_id),
              Bit(x.curr.order_ts, x.prev.order_ts),
              Bit(x.curr.target_wgt, x.prev.target_wgt),
              Bit(x.curr.real_wgt, x.prev.real_wgt),
              Bit(x.curr.real_wgt, x.prev.real_wgt),
              Bit(x.curr.notional, x.prev.notional) >>

\* OrdersLog.mask
OrdersLogMask(x) ==
  IF x.prev = NoState \/ x.event_type \in {"CREATE", "REMOVE", "RECREATE"}
    THEN <<"1", "1", "1", "1", "1", "1", "1", "1", "1">>
    ELSE IF x.event_type = "POINTLESS_AMEND"
      THEN <<"0", "0", "0", "0", "0", "0", "0", "0", "0">>
      ELSE << Bit(x.curr.portfolio_id, x.prev.portfolio_id),
              Bit(x.curr.side, x.prev.side),
              Bit(x.curr.asset_id_type, x.prev.asset_id_type),
              Bit(x.curr.asset_id, x.prev.asset_id),
              Bit(x.curr.order_ts, x.prev.order_ts),
              Bit(x.curr.target_wgt, x.prev.target_wgt),
              Bit(x.curr.real_wgt, x.prev.real_wgt),
              Bit(x.curr.quantity, x.prev.quantity),
              Bit(x.curr.notional, x.prev.notional) >>

\* OrdersControl.hash
OrdersControlHash(r) ==
  <<r.portfolio_id, r.last_read_delivery_id, r.last_decision_datadate, r.last_rebal_ts>>

\* OrdersControlLog.mask
OrdersControlLogMask(x) ==
  IF x.prev = NoState \/ x.event_type \in {"CREATE", "REMOVE", "RECREATE"}
    THEN <<"1", "1", "1", "1">>
    ELSE IF x.event_type = "POINTLESS_AMEND"
      THEN <<"0", "0", "0", "0">>
      ELSE << Bit(x.curr.portfolio_id, x.prev.portfolio_id),
              Bit(x.curr.last_read_delivery_id, x.prev.last_read_delivery_id),
              Bit(x.curr.last_decision_datadate, x.prev.last_decision_datadate),
              Bit(x.curr.last_rebal_ts, x.prev.last_rebal_ts) >>

\* upstream rows of orders, as get_orders_records builds them: one key,
\* both sides, 0 for a falsy optional value
OrdersRows ==
  [portfolio_id : {1}, side : Decisions, asset_id_type : {"TICKER"}, asset_id : {"AAPL"},
   order_ts : {1}, target_wgt : {0, 1}, real_wgt : {0, 1}, quantity : RawVals, notional : {0, 1}]

\* stored rows of orders: as_tuple of a state an earlier delivery persisted
OrdersStored ==
  {OrdersAsTuple([OrdersFromSource(r) EXCEPT !.event_id = e, !.delivery_id = 1]) :
     r \in OrdersRows, e \in {1, 2}}

\* states of orders_control, as from_source and from_target build them
OrdersControlStates ==
  [portfolio_id : {1}, last_read_delivery_id : StoredVals, last_decision_datadate : StoredVals,
   last_rebal_ts : StoredVals, event_id : {None}, delivery_id : {None}]

\* the event logs compute_events builds for orders: CREATE without prev,
\* AMEND of a stored state by a record of another hash, REMOVE with a
\* tombstone as curr
OrdersLogs ==
  {FromStates("CREATE", [OrdersFromSource(r) EXCEPT !.event_id = 3, !.delivery_id = 2], NoState) :
     r \in OrdersRows}
  \cup
  {FromStates("AMEND", [OrdersFromSource(r) EXCEPT !.event_id = 3, !.delivery_id = 2], OrdersFromTarget(t)) :
     r \in OrdersRows, t \in OrdersStored}
  \cup
  {FromStates("REMOVE", OrdersRemovalInstance(3, 2, <<t.portfolio_id, t.asset_id, t.order_ts>>), OrdersFromTarget(t)) :
     t \in OrdersStored}

\* the event logs compute_events builds for orders_control
OrdersControlLogs ==
  {FromStates("CREATE", c, NoState) : c \in OrdersControlStates}
  \cup
  {FromStates("AMEND", c, p) : c \in OrdersControlStates, p \in OrdersControlStates}

\* an event log of one of the two entities
MaskInit ==
  /\ fn_in \in ({[entity |-> "orders", log |-> x] :
                   x \in {y \in OrdersLogs : y.event_type = "AMEND" => OrdersHash(y.curr) # OrdersHash(y.prev)}}
                \cup
                {[entity |-> "orders_control", log |-> x] :
                   x \in {y \in OrdersControlLogs :
                            y.event_type = "AMEND" => OrdersControlHash(y.curr) # OrdersControlHash(y.prev)}})
  /\ fn_out = NoResult
  /\ EngineOff
  /\ LoaderOff

\* the mask of an orders event log, as as_record reads it
MaskOfOrdersLog ==
  /\ fn_out = NoResult
  /\ fn_in.entity = "orders"
  /\ fn_out' = [mask |-> OrdersLogMask(fn_in.log)]
  /\ UNCHANGED <<fn_in, engineVars, loaderVars>>

\* the mask of an orders_control event log, as as_record reads it
MaskOfOrdersControlLog ==
  /\ fn_out = NoResult
  /\ fn_in.entity = "orders_control"
  /\ fn_out' = [mask |-> OrdersControlLogMask(fn_in.log)]
  /\ UNCHANGED <<fn_in, engineVars, loaderVars>>

MaskNext == MaskOfOrdersLog \/ MaskOfOrdersControlLog

SpecMask == MaskInit /\ [][MaskNext]_vars

\* the field order of the entity of the event log in fn_in
FieldsOf(e) == IF e = "orders" THEN OrdersFields ELSE OrdersControlFields

\* the positions of a mask that hold "1"
Ones(m) == {j \in 1..Len(m) : m[j] = "1"}

\* the position of quantity among the value fields of Orders
QuantityPosition == CHOOSE j \in 1..Len(OrdersFields) : OrdersFields[j] = "quantity"

\* C12: the mask of an AMEND event has one bit per value field, in field
\* order, and bit j is "1" exactly when field j differs between prev and
\* curr; when only quantity differs the mask has exactly one "1", at the
\* position of quantity.
C12_MaskCorrectness ==
  (fn_out # NoResult /\ fn_in.log.event_type = "AMEND") =>
    LET F == FieldsOf(fn_in.entity)
        c == fn_in.log.curr
        p == fn_in.log.prev
    IN /\ Len(fn_out.mask) = Len(F)
       /\ \A j \in 1..Len(F) : fn_out.mask[j] \in {"0", "1"} /\ (fn_out.mask[j] = "1" <=> c[F[j]] # p[F[j]])
       /\ (fn_in.entity = "orders" /\ {j \in 1..Len(F) : c[F[j]] # p[F[j]]} = {QuantityPosition}) =>
            Ones(fn_out.mask) = {QuantityPosition}

\* C12 witness: the mask of an orders AMEND whose prev and curr differ in
\* quantity only has been computed and is 000000010.
C12_Witness ==
  /\ fn_out # NoResult /\ fn_in.entity = "orders" /\ fn_in.log.event_type = "AMEND"
  /\ fn_in.log.curr.quantity # fn_in.log.prev.quantity
  /\ \A j \in 1..Len(OrdersFields) :
       j # QuantityPosition => fn_in.log.curr[OrdersFields[j]] = fn_in.log.prev[OrdersFields[j]]
  /\ fn_out.mask = <<"0", "0", "0", "0", "0", "0", "0", "1", "0">>

\* ------------------------------------------------------------------------
\* The hash of a record built from an upstream row and of one built from a
\* stored row
\* ------------------------------------------------------------------------

\* an upstream row and a stored row of the same key
HashInit ==
  /\ fn_in \in [source : OrdersRows, target : OrdersStored]
  /\ fn_out = NoResult
  /\ EngineOff
  /\ LoaderOff

\* process and compute_events on one record: from_target on the stored row,
\* from_source on the upstream row, and the test record.hash != events[key].hash
CompareHashes ==
  /\ fn_out = NoResult
  /\ LET record == OrdersFromSource(fn_in.source)
         stored == OrdersFromTarget(fn_in.target)
     IN fn_out' = [record |-> record, stored |-> stored,
                   changed |-> OrdersHash(record) # OrdersHash(stored)]
  /\ UNCHANGED <<fn_in, engineVars, loaderVars>>

HashNext == CompareHashes

SpecHash == HashInit /\ [][HashNext]_vars

\* the two states agree on every value field
SameValueFields(a, b) == \A j \in 1..Len(OrdersFields) : a[OrdersFields[j]] = b[OrdersFields[j]]

StoredTables == {[k \in DOMAIN p |-> AsTuple(p[k])] : p \in PrevStates}

\* Loader.process: the keys stored and missing from the file, and every
\* record of the file paired by zip with the next id of get_next_event_id(n)
Process(entity, f, table, did, sq) ==
  LET keys == ListIdsFromSource(f)
      prev_state == IF entity = "orders_latest"
                      THEN table
                      ELSE [k \in (DOMAIN table) \cap keys |-> table[k]]
      prev_keys == {Key(FromTarget(prev_state[k])) : k \in DOMAIN prev_state}
      curr_records == [j \in 1..Len(f) |-> FromSource(f[j])]
      it == NewIterator(Len(curr_records))
      records == [j \in 1..Len(curr_records) |->
                    [curr_records[j] EXCEPT !.event_id = IdOf(it, sq) + (j - 1), !.delivery_id = did]]
      curr_keys == {Key(records[j]) : j \in 1..Len(records)}
  IN [records |-> records,
      keys_to_remove |-> prev_keys \ curr_keys,
      seq |-> IF Len(curr_records) = 0 THEN sq ELSE SeqAfter(it, sq)]

\* a file of at least one record (run_once calls process with orders
\* records only when there are some, and with one control and one config
\* record), the table of the entity, and the sequence at some value
ProcessInit ==
  /\ fn_in \in [entity : {"orders", "orders_latest"}, file : Batches \ {<<>>},
                table : StoredTables, delivery_id : {1}, seq : {0, 1}]
  /\ fn_out = NoResult
  /\ EngineOff
  /\ LoaderOff

\* one call of process
ProcessFile ==
  /\ fn_out = NoResult
  /\ fn_out' = Process(fn_in.entity, fn_in.file, fn_in.table, fn_in.delivery_id, fn_in.seq)
  /\ UNCHANGED <<fn_in, engineVars, loaderVars>>

ProcessNext == ProcessFile

SpecProcess == ProcessInit /\ [][ProcessNext]_vars

\* the record r repeats what the table holds for its key
Unchanged(r, table) == Key(r) \in DOMAIN table /\ Hash(r) = Hash(FromTarget(table[Key(r)]))

\* C14: an event id is taken from the sequence only for a record that
\* produces an event; a record whose hash equals that of the stored state of
\* its key takes no id and keeps no new id; and no id is given twice.
C14_LazyEventIds ==
  fn_out # NoResult =>
    LET recs == fn_out.records
        changed == {j \in 1..Len(recs) : ~Unchanged(recs[j], fn_in.table)}
    IN /\ \A j \in 1..Len(recs) : Unchanged(recs[j], fn_in.table) => recs[j].event_id = None
       /\ Cardinality({recs[j].event_id : j \in 1..Len(recs)} \ {None}) <= Cardinality(changed)
       /\ \A j, k \in 1..Len(recs) : (j # k /\ recs[j].event_id # None) => recs[j].event_id # recs[k].event_id

\* ------------------------------------------------------------------------
\* Order sizing (Weighting.get_weights, Weighting.get_orders_params)
\* ------------------------------------------------------------------------

\* weights are held as multiples of 1 / WeightScale: 1 stands for 0.00001
WeightScale == 100000

\* the notional change an order has to exceed (alpaca loader)
Materiality == 1

\* the weights of the strategy records: 0, 0.00001, 0.5
Weights == {0, 1, 50000}

\* ask and bid prices of the latest book
Prices == {1, 100, 100000}

\* the capital given to Weighting.setup
Capitals == {0, 1000}

\* quantities held at the broker: long, short
Held == {5, 7, 0 - 5, 0 - 7}

\* abs()
Abs(x) == IF x < 0 THEN 0 - x ELSE x

\* dictionaries over some of the assets
Dicts(V) == UNION {[S -> V] : S \in SUBSET Assets}

\* the strategy records of one side: one record per asset, in any order
StrategyRecords(dec) ==
  {<<[asset_id |-> a, decision |-> dec, weight |-> w]>> : a \in Assets, w \in Weights}
  \cup
  {<<[asset_id |-> x[1], decision |-> dec, weight |-> w], [asset_id |-> x[2], decision |-> dec, weight |-> v]>> :
     x \in {y \in Assets \X Assets : y[1] # y[2]}, w \in Weights, v \in Weights}

\* the records of s from j on whose price is not 0
RECURSIVE Available(_, _, _)
Available(s, prices, j) ==
  IF j > Len(s) THEN <<>>
  ELSE (IF prices[s[j].asset_id] # 0 THEN <<s[j]>> ELSE <<>>) \o Available(s, prices, j + 1)

\* target_notional / price rounded up to a whole unit
CeilQuantity(capital, w, price) ==
  LET target_notional == (capital * w) \div WeightScale
  IN IF target_notional % price = 0 THEN target_notional \div price ELSE (target_notional \div price) + 1

\* target_notional // price with target_notional = capital * weight: the
\* integer part of capital * w / (WeightScale * price), divided in two
\* steps
FloorQuantity(capital, w, price) == ((capital * w) \div WeightScale) \div price

\* the quantity of get_weights without the minimum of one unit
QuantityNoMinimum(capital, w, price) == FloorQuantity(capital, w, price)

\* the quantity of get_weights for a stock ticker: the floor, and 1 when it
\* is 0 (the true division of a crypto ticker is left out)
Quantity(capital, w, price) ==
  IF FloorQuantity(capital, w, price) = 0 THEN 1 ELSE FloorQuantity(capital, w, price)

\* sum of quantity * price over the records of s from j on
RECURSIVE UsedCapital(_, _, _, _)
UsedCapital(s, quantities, prices, j) ==
  IF j > Len(s) THEN 0
  ELSE quantities[s[j].asset_id] * prices[s[j].asset_id] + UsedCapital(s, quantities, prices, j + 1)

\* get_weights pricing every candidate at the ask
GetWeightsAtAsk(capital, strategy_records, latest_asks, latest_bids, current_positions) ==
  LET prices == [a \in {strategy_records[j].asset_id : j \in 1..Len(strategy_records)} |->
                   IF a \in DOMAIN latest_asks THEN latest_asks[a] ELSE 0]
      available == Available(strategy_records, prices, 1)
      ids == {available[j].asset_id : j \in 1..Len(available)}
      target_weights == [a \in ids |-> (available[CHOOSE j \in 1..Len(available) : available[j].asset_id = a]).weight]
      quantities == [a \in ids |-> Quantity(capital, target_weights[a], prices[a])]
      notional == [a \in ids |-> quantities[a] * prices[a]]
      used_capital == UsedCapital(available, quantities, prices, 1)
  IN [capital |-> capital, strategy_records |-> available, current_positions |-> current_positions,
      prices |-> prices, target_weights |-> target_weights, quantities |-> quantities,
      notional |-> notional, real_weights |-> [a \in ids |-> <<notional[a], used_capital>>],
      total_value |-> used_capital]

\* Weighting.setup and get_weights: prices from the asks (long) or the bids
\* (short), 0 without a quote; records without a price dropped; quantity,
\* notional and real weight (notional over used capital) per asset
GetWeights(capital, strategy_records, latest_asks, latest_bids, current_positions) ==
  LET prices == [a \in {strategy_records[j].asset_id : j \in 1..Len(strategy_records)} |->
                   LET s == strategy_records[CHOOSE j \in 1..Len(strategy_records) : strategy_records[j].asset_id = a]
                       book == IF s.decision = 1 THEN latest_asks ELSE latest_bids
                   IN IF a \in DOMAIN book THEN book[a] ELSE 0]
      available == Available(strategy_records, prices, 1)
      ids == {available[j].asset_id : j \in 1..Len(available)}
      target_weights == [a \in ids |-> (available[CHOOSE j \in 1..Len(available) : available[j].asset_id = a]).weight]
      quantities == [a \in ids |-> Quantity(capital, target_weights[a], prices[a])]
      notional == [a \in ids |-> quantities[a] * prices[a]]
      used_capital == UsedCapital(available, quantities, prices, 1)
  IN [capital |-> capital, strategy_records |-> available, current_positions |-> current_positions,
      prices |-> prices, target_weights |-> target_weights, quantities |-> quantities,
      notional |-> notional, real_weights |-> [a \in ids |-> <<notional[a], used_capital>>],
      total_value |-> used_capital]

\* Alpaca.buy_params without abs()
BuyParamsSigned(ticker, quantity) == [symbol |-> ticker, quantity |-> quantity, side |-> "buy"]

\* Alpaca.buy_params
BuyParams(ticker, quantity) == [symbol |-> ticker, quantity |-> Abs(quantity), side |-> "buy"]

\* Alpaca.sell_params
SellParams(ticker, quantity) == [symbol |-> ticker, quantity |-> Abs(quantity), side |-> "sell"]

\* the quantity get_orders_params works out for the record s: target minus
\* current for a long, target plus current for a short, the target itself
\* when nothing is held
OrderQuantity(w, s) ==
  LET target_quantity == w.quantities[s.asset_id]
      curr_quantity == IF s.asset_id \in DOMAIN w.current_positions THEN w.current_positions[s.asset_id] ELSE None
      held == curr_quantity # None /\ curr_quantity # 0
  IN IF s.decision = 1
       THEN (IF held THEN target_quantity - curr_quantity ELSE target_quantity)
       ELSE (IF held THEN target_quantity + curr_quantity ELSE target_quantity)

\* the order of get_orders_params for the record s, of the equity loader:
\* <<>> when the quantity is 0
OrderOfEquity(w, s) ==
  LET quantity == OrderQuantity(w, s) IN
    IF s.decision = 1
      THEN (IF quantity < 0 THEN <<SellParams(s.asset_id, quantity)>>
            ELSE IF quantity > 0 THEN <<BuyParams(s.asset_id, quantity)>> ELSE <<>>)
      ELSE (IF quantity > 0 THEN <<SellParams(s.asset_id, quantity)>>
            ELSE IF quantity < 0 THEN <<BuyParams(s.asset_id, quantity)>> ELSE <<>>)

\* the order of get_orders_params for the record s, of the alpaca loader:
\* as above, and only if notional_change > 1
OrderOfAlpaca(w, s) ==
  LET quantity == OrderQuantity(w, s)
      notional_change == Abs(quantity * w.prices[s.asset_id])
  IN IF notional_change > Materiality THEN OrderOfEquity(w, s) ELSE <<>>

\* the orders of the records of w.strategy_records from j on, of one side
RECURSIVE OrdersParams(_, _, _, _)
OrdersParams(variant, w, side, j) ==
  IF j > Len(w.strategy_records) THEN <<>>
  ELSE LET o == IF variant = "alpaca" THEN OrderOfAlpaca(w, w.strategy_records[j])
                ELSE OrderOfEquity(w, w.strategy_records[j])
       IN (IF o # <<>> /\ o[1].side = side THEN o ELSE <<>>) \o OrdersParams(variant, w, side, j + 1)

\* Weighting.get_orders_params
GetOrdersParams(variant, w) ==
  [buy |-> OrdersParams(variant, w, "buy", 1), sell |-> OrdersParams(variant, w, "sell", 1)]

\* the quantity get_orders_records works out for the record s: target minus
\* abs(current), the target itself when nothing is held
RecordQuantity(w, s) ==
  LET target_quantity == w.quantities[s.asset_id]
      curr_quantity == IF s.asset_id \in DOMAIN w.current_positions THEN w.current_positions[s.asset_id] ELSE None
      held == curr_quantity # None /\ curr_quantity # 0
  IN IF held THEN target_quantity - Abs(curr_quantity) ELSE target_quantity

\* the records of get_orders_records for the records of w.strategy_records
\* from j on: one when the quantity is not 0 (equity), and also
\* notional_change > 1 (alpaca); weights in units of 1 / WeightScale, the
\* real weight as the pair (notional, used capital), the timestamp left out
RECURSIVE GetOrdersRecords(_, _, _)
GetOrdersRecords(variant, w, j) ==
  IF j > Len(w.strategy_records) THEN <<>>
  ELSE LET s == w.strategy_records[j]
           quantity == RecordQuantity(w, s)
           notional_change == Abs(quantity * w.prices[s.asset_id])
           kept == quantity # 0 /\ (variant = "alpaca" => notional_change > Materiality)
       IN (IF kept
           THEN <<[portfolio_id |-> 1, side |-> s.decision, asset_id |-> s.asset_id,
                   target_wgt |-> w.target_weights[s.asset_id] * s.decision,
                   real_wgt |-> <<w.real_weights[s.asset_id][1] * s.decision, w.real_weights[s.asset_id][2]>>,
                   quantity |-> w.quantities[s.asset_id] * s.decision,
                   notional |-> w.notional[s.asset_id] * s.decision]>>
           ELSE <<>>) \o GetOrdersRecords(variant, w, j + 1)

\* the arguments of Weighting.setup: the capital, the candidates of one
\* side, the latest book and the positions held
SizingInit ==
  /\ \E dec \in Decisions, q \in Dicts(Prices) :
       fn_in \in [variant : {"alpaca", "equity"}, capital : Capitals,
                  strategy_records : StrategyRecords(dec),
                  latest_asks : {q}, latest_bids : {q},
                  current_positions : Dicts(Held)]
  /\ fn_out = NoResult
  /\ EngineOff
  /\ LoaderOff

\* Weighting.setup, then get_orders_params and get_orders_records
Size ==
  /\ fn_out = NoResult
  /\ LET w == GetWeights(fn_in.capital, fn_in.strategy_records, fn_in.latest_asks,
                         fn_in.latest_bids, fn_in.current_positions)
     IN fn_out' = [weighting |-> w, orders_params |-> GetOrdersParams(fn_in.variant, w),
                   orders_records |-> GetOrdersRecords(fn_in.variant, w, 1)]
  /\ UNCHANGED <<fn_in, engineVars, loaderVars>>

SizingNext == Size

SpecSizing == SizingInit /\ [][SizingNext]_vars

\* the candidates that were sized: they have a price
Sized == {fn_out.weighting.strategy_records[j] : j \in 1..Len(fn_out.weighting.strategy_records)}

\* the quantity held of the asset a, 0 when no position is held
Current(a) == IF a \in DOMAIN fn_in.current_positions THEN fn_in.current_positions[a] ELSE 0

\* target quantity minus current quantity of the candidate s; a short
\* position is held as a negative quantity and targeted as one
Delta(s) == s.decision * fn_out.weighting.quantities[s.asset_id] - Current(s.asset_id)

\* the orders emitted for the asset a
OrdersFor(a) ==
  {o \in {fn_out.orders_params.buy[j] : j \in 1..Len(fn_out.orders_params.buy)}
         \cup {fn_out.orders_params.sell[j] : j \in 1..Len(fn_out.orders_params.sell)} : o.symbol = a}

\* C15: in get_weights, a candidate whose quantity capital * weight // price
\* is 0 gets the quantity 1, and any other candidate gets that floor; weight
\* 0.00001, capital 1000 and price 100000 give the quantity 1.
C15_MinimumOrderUnit ==
  fn_out # NoResult =>
    \A s \in Sized :
      LET w == fn_out.weighting
          floor == FloorQuantity(fn_in.capital, s.weight, w.prices[s.asset_id])
      IN /\ floor = 0 => w.quantities[s.asset_id] = 1
         /\ floor # 0 => w.quantities[s.asset_id] = floor
         /\ (s.weight = 1 /\ fn_in.capital = 1000 /\ w.prices[s.asset_id] = 100000) =>
              w.quantities[s.asset_id] = 1

\* C15 witness: the candidate of weight 0.00001 with capital 1000 and price
\* 100000 has been sized, its floor is 0 and its quantity is 1.
C15_Witness ==
  /\ fn_out # NoResult
  /\ \E s \in Sized :
       /\ s.weight = 1 /\ fn_in.capital = 1000 /\ fn_out.weighting.prices[s.asset_id] = 100000
       /\ FloorQuantity(fn_in.capital, s.weight, 100000) = 0
       /\ fn_out.weighting.quantities[s.asset_id] = 1

\* the candidates with a weight other than 0 and a quoted price other than 0
Quoted == {s \in Sized : s.weight # 0}

\* C16, as stated: every candidate with a non-zero weight and a quoted
\* non-zero price gets an order of a non-zero quantity in the cycle.
C16_NoSilentExclusion ==
  fn_out # NoResult =>
    \A s \in {x \in {fn_in.strategy_records[j] : j \in 1..Len(fn_in.strategy_records)} :
                /\ x.weight # 0
                /\ x.asset_id \in DOMAIN fn_in.latest_asks
                /\ fn_in.latest_asks[x.asset_id] # 0} :
      \E o \in OrdersFor(s.asset_id) : o.quantity # 0

\* C16, amended: every candidate with a quoted non-zero price is sized with a
\* target quantity of at least 1, and it gets an order of a non-zero
\* quantity whenever that target differs from the quantity held by a
\* notional of more than 1.
C16_NonZeroTargetQuantity ==
  fn_out # NoResult =>
    \A s \in {x \in {fn_in.strategy_records[j] : j \in 1..Len(fn_in.strategy_records)} :
                /\ x.asset_id \in DOMAIN fn_in.latest_asks
                /\ fn_in.latest_asks[x.asset_id] # 0} :
      /\ s \in Sized
      /\ fn_out.weighting.quantities[s.asset_id] >= 1
      /\ Abs(Delta(s) * fn_out.weighting.prices[s.asset_id]) > Materiality =>
           \E o \in OrdersFor(s.asset_id) : o.quantity # 0

\* C16 witness: a candidate of non-zero weight whose floor quantity is 0 and
\* that holds no position got an order of one unit.
C16_Witness ==
  /\ fn_out # NoResult
  /\ \E s \in Quoted :
       /\ FloorQuantity(fn_in.capital, s.weight, fn_out.weighting.prices[s.asset_id]) = 0
       /\ Current(s.asset_id) = 0
       /\ \E o \in OrdersFor(s.asset_id) : o.quantity = 1

\* C17: for a sized candidate, with delta the target minus the current
\* quantity (0 when nothing is held): no order when delta is 0, at most one
\* order otherwise, and one when the notional of delta exceeds 1; for a long
\* the order buys when delta is positive and sells when it is negative; for a
\* short the order sells when the short position has to grow and buys when
\* it has to shrink; the quantity of the order is the magnitude of delta.
C17_OrderSideConvention ==
  fn_out # NoResult =>
    /\ \A j \in 1..Len(fn_out.orders_params.buy) : fn_out.orders_params.buy[j].side = "buy"
    /\ \A j \in 1..Len(fn_out.orders_params.sell) : fn_out.orders_params.sell[j].side = "sell"
    /\ \A s \in Sized :
         LET target == fn_out.weighting.quantities[s.asset_id]
             held == Current(s.asset_id)
             delta == IF s.decision = 1 THEN target - held ELSE target - (0 - held)
             os == OrdersFor(s.asset_id)
         IN /\ delta = 0 => os = {}
            /\ Cardinality(os) <= 1
            /\ (delta # 0 /\ Abs(delta * fn_out.weighting.prices[s.asset_id]) > Materiality) => os # {}
            /\ \A o \in os :
                 /\ o.quantity > 0 /\ o.quantity = Abs(delta)
                 /\ (s.decision = 1 /\ delta > 0) => o.side = "buy"
                 /\ (s.decision = 1 /\ delta < 0) => o.side = "sell"
                 /\ (s.decision # 1 /\ delta > 0) => o.side = "sell"
                 /\ (s.decision # 1 /\ delta < 0) => o.side = "buy"

\* C17 witness: a short candidate whose short position has to shrink got a
\* buy order of the positive difference.
C17_Witness ==
  /\ fn_out # NoResult
  /\ \E s \in Sized :
       /\ s.decision # 1 /\ Current(s.asset_id) < 0
       /\ fn_out.weighting.quantities[s.asset_id] < 0 - Current(s.asset_id)
       /\ \E o \in OrdersFor(s.asset_id) :
            o.side = "buy" /\ o.quantity = (0 - Current(s.asset_id)) - fn_out.weighting.quantities[s.asset_id]

\* C18: an order is emitted for a candidate only if the notional of its delta,
\* |delta * price|, is strictly greater than 1.
C18_MaterialityThreshold ==
  fn_out # NoResult =>
    \A s \in Sized :
      OrdersFor(s.asset_id) # {} => Abs(Delta(s) * fn_out.weighting.prices[s.asset_id]) > Materiality

\* ------------------------------------------------------------------------
\* Turnover-limited rebalancing (PortfolioOptimization.get_weights)
\* ------------------------------------------------------------------------

\* the tickers, in the order sort() puts them
TickerOrder == <<"A", "X", "Y">>

\* weights of the strategy are held as multiples of 1 / WeightUnit
WeightUnit == 6

\* alpha is held as a multiple of 1 / AlphaScale
AlphaScale == 2

\* the values of alpha, from 0 to 1
Alphas == 0..AlphaScale

\* non-zero weights: a third, a half, one
PositiveWeights == {2, 3, 6}

\* the date of the previous weights and the last date of the closes
PrevDate == 1
LastDate == 2

\* the place of the ticker t in the sorting order
Rank(t) == CHOOSE j \in 1..Len(TickerOrder) : TickerOrder[j] = t

\* the elements of a list
Elems(l) == {l[j] : j \in 1..Len(l)}

\* lists of the members of S, each once, in any order
Perms(S) == {l \in [1..Cardinality(S) -> S] : Elems(l) = S}

\* lists of tickers, each at most once
TickerLists == UNION {Perms(S) : S \in SUBSET Elems(TickerOrder)}

\* l.sort(key=lambda x: x[0]) for entries of distinct tickers
SortByTicker(l) ==
  [j \in 1..Len(l) |->
     CHOOSE x \in Elems(l) : Cardinality({y \in Elems(l) : Rank(y[1]) < Rank(x[1])}) = j - 1]

\* no asset of the previous weights is added to the target
ExcludedNone(previous_weights, assets_to_buy) == <<>>

\* excluded_assets: the previous assets that are not to buy, in their order
RECURSIVE ExcludedFrom(_, _, _)
ExcludedFrom(previous_weights, assets_to_buy, j) ==
  IF j > Len(previous_weights) THEN <<>>
  ELSE (IF previous_weights[j][1] \in Elems(assets_to_buy) THEN <<>> ELSE <<previous_weights[j][1]>>)
       \o ExcludedFrom(previous_weights, assets_to_buy, j + 1)

\* excluded_assets
Excluded(previous_weights, assets_to_buy) == ExcludedFrom(previous_weights, assets_to_buy, 1)

\* target_weights after extend and sort: [ticker, last_date, weight] of the
\* assets to buy, then [a, last_date, 0] of the excluded assets
TargetWeights(assets_to_buy, buy_array, previous_weights, last_date) ==
  LET excluded_assets == Excluded(previous_weights, assets_to_buy) IN
    SortByTicker([j \in 1..Len(assets_to_buy) |-> <<assets_to_buy[j], last_date, buy_array[j]>>]
                 \o [j \in 1..Len(excluded_assets) |-> <<excluded_assets[j], last_date, 0>>])

\* the shorter of two lengths: where zip stops
Min(a, b) == IF a < b THEN a ELSE b

\* rebalanced_weights: zip of the sorted previous weights and the sorted
\* target weights, ticker and date of the previous entry, weight
\* alpha * prev[2] + (1 - alpha) * target[2] in units of
\* 1 / (WeightUnit * AlphaScale)
Rebalanced(previous_weights, target_weights, alpha) ==
  LET sorted == SortByTicker(previous_weights) IN
    [j \in 1..Min(Len(sorted), Len(target_weights)) |->
       <<sorted[j][1], sorted[j][2], alpha * sorted[j][3] + (AlphaScale - alpha) * target_weights[j][3]>>]

\* get_weights that falls back to equal weights whatever the previous weights
GetRebalancedWeightsNoHold(assets_to_buy, buy_array, previous_weights, alpha, last_date, columns) ==
  IF Len(assets_to_buy) > 0
    THEN LET target_weights == TargetWeights(assets_to_buy, buy_array, previous_weights, last_date) IN
           [branch |-> "rebalanced", target_weights |-> target_weights,
            weights |-> Rebalanced(previous_weights, target_weights, alpha)]
    ELSE [branch |-> "equal", target_weights |-> <<>>,
          weights |-> [j \in 1..Len(columns) |->
                         <<columns[j], last_date, (WeightUnit \div Len(columns)) * AlphaScale>>]]

\* PortfolioOptimization.get_weights from the signals on: assets_to_buy and
\* buy_array come from the signal stage, alpha from adjust_alpha, columns are
\* the assets of closes
GetRebalancedWeights(assets_to_buy, buy_array, previous_weights, alpha, last_date, columns) ==
  IF Len(assets_to_buy) > 0
    THEN LET target_weights == TargetWeights(assets_to_buy, buy_array, previous_weights, last_date) IN
           [branch |-> "rebalanced", target_weights |-> target_weights,
            weights |-> Rebalanced(previous_weights, target_weights, alpha)]
    ELSE IF previous_weights # <<>>
      THEN [branch |-> "previous", target_weights |-> <<>>,
            weights |-> [j \in 1..Len(previous_weights) |->
                           <<previous_weights[j][1], last_date, previous_weights[j][3] * AlphaScale>>]]
      ELSE [branch |-> "equal", target_weights |-> <<>>,
            weights |-> [j \in 1..Len(columns) |->
                           <<columns[j], last_date, (WeightUnit \div Len(columns)) * AlphaScale>>]]

\* the previous weights read from the latest strategy state, the assets the
\* signal stage selects with their weights, and the alpha of adjust_alpha
RebalanceInit ==
  /\ \E buy \in TickerLists, old \in TickerLists :
       fn_in \in [assets_to_buy : {buy}, buy_array : [1..Len(buy) -> PositiveWeights],
                  previous_weights : {[j \in 1..Len(old) |-> <<old[j], PrevDate, w[j]>>] :
                                        w \in [1..Len(old) -> {3, 6}]},
                  alpha : Alphas]
  /\ fn_out = NoResult
  /\ EngineOff
  /\ LoaderOff

\* one call of get_weights
Rebalance ==
  /\ fn_out = NoResult
  /\ fn_out' = GetRebalancedWeights(fn_in.assets_to_buy, fn_in.buy_array, fn_in.previous_weights,
                                    fn_in.alpha, LastDate, TickerOrder)
  /\ UNCHANGED <<fn_in, engineVars, loaderVars>>

RebalanceNext == Rebalance

SpecRebalance == RebalanceInit /\ [][RebalanceNext]_vars

\* the weight of the ticker t in the list l, 0 when l has no entry for t
WeightIn(l, t) == IF \E x \in Elems(l) : x[1] = t THEN (CHOOSE x \in Elems(l) : x[1] = t)[3] ELSE 0

\* the tickers of the list l
TickersOf(l) == {x[1] : x \in Elems(l)}

\* the fresh target before the union
Fresh == [j \in 1..Len(fn_in.assets_to_buy) |-> <<fn_in.assets_to_buy[j], LastDate, fn_in.buy_array[j]>>]

\* C19: when assets are selected, the target weights that go into the blend
\* hold every selected asset with its fresh weight and every asset of the
\* previous weights that is not selected with weight 0, and nothing else;
\* previous {X: 1/2, Y: 1/2} and fresh {X: 1} give {X: 1, Y: 0}.
C19_UnionBeforeBlend ==
  (fn_out # NoResult /\ fn_out.branch = "rebalanced") =>
    /\ TickersOf(fn_out.target_weights) = TickersOf(Fresh) \cup TickersOf(fn_in.previous_weights)
    /\ Len(fn_out.target_weights) = Cardinality(TickersOf(fn_out.target_weights))
    /\ \A t \in TickersOf(Fresh) : WeightIn(fn_out.target_weights, t) = WeightIn(Fresh, t)
    /\ \A t \in TickersOf(fn_in.previous_weights) \ TickersOf(Fresh) : WeightIn(fn_out.target_weights, t) = 0
    /\ (/\ fn_in.assets_to_buy = <<"X">> /\ fn_in.buy_array = <<6>>
        /\ Elems(fn_in.previous_weights) = {<<"X", PrevDate, 3>>, <<"Y", PrevDate, 3>>}) =>
         fn_out.target_weights = << <<"X", LastDate, 6>>, <<"Y", LastDate, 0>> >>

\* C19 witness: previous {X: 1/2, Y: 1/2}, fresh {X: 1}: the target that is
\* blended is {X: 1, Y: 0}.
C19_Witness ==
  /\ fn_out # NoResult /\ fn_out.branch = "rebalanced"
  /\ fn_in.assets_to_buy = <<"X">> /\ fn_in.buy_array = <<6>>
  /\ Elems(fn_in.previous_weights) = {<<"X", PrevDate, 3>>, <<"Y", PrevDate, 3>>}
  /\ fn_out.target_weights = << <<"X", LastDate, 6>>, <<"Y", LastDate, 0>> >>

\* C20: when previous weights exist and assets are selected, the output
\* holds every asset of the union of the two universes, each once, with the
\* weight alpha * prev[a] + (1 - alpha) * fresh[a], a missing weight being 0.
C20_BlendCoversUnion ==
  (fn_out # NoResult /\ fn_out.branch = "rebalanced" /\ fn_in.previous_weights # <<>>) =>
    /\ TickersOf(fn_out.weights) = TickersOf(Fresh) \cup TickersOf(fn_in.previous_weights)
    /\ Len(fn_out.weights) = Cardinality(TickersOf(fn_out.weights))
    /\ \A t \in TickersOf(fn_out.weights) :
         WeightIn(fn_out.weights, t) =
           fn_in.alpha * WeightIn(fn_in.previous_weights, t) + (AlphaScale - fn_in.alpha) * WeightIn(Fresh, t)

\* ------------------------------------------------------------------------
\* get_weights when the signal stage selects no asset
\* ------------------------------------------------------------------------

\* no asset to buy, the previous weights in any order (or none), and the
\* assets of closes: those that have a price on every date
FallbackInit ==
  /\ \E old \in TickerLists :
       fn_in \in [assets_to_buy : {<<>>}, buy_array : {<<>>},
                  previous_weights : {[j \in 1..Len(old) |-> <<old[j], PrevDate, w[j]>>] :
                                        w \in [1..Len(old) -> PositiveWeights]},
                  alpha : Alphas, columns : TickerLists]
  /\ fn_out = NoResult
  /\ EngineOff
  /\ LoaderOff

\* one call of get_weights
Fallback ==
  /\ fn_out = NoResult
  /\ fn_out' = GetRebalancedWeights(fn_in.assets_to_buy, fn_in.buy_array, fn_in.previous_weights,
                                    fn_in.alpha, LastDate, fn_in.columns)
  /\ UNCHANGED <<fn_in, engineVars, loaderVars>>

FallbackNext == Fallback

SpecFallback == FallbackInit /\ [][FallbackNext]_vars

\* C21: when no asset is selected, the output holds the assets of the
\* previous weights, in their order, each with its previous weight, if there
\* are previous weights; otherwise it holds each of the N assets of closes
\* once with the weight 1/N.  (Weights of the output are in units of
\* 1 / (WeightUnit * AlphaScale).)
C21_NoEligibleAssetsFallback ==
  (fn_out # NoResult /\ fn_in.assets_to_buy = <<>>) =>
    IF fn_in.previous_weights # <<>>
      THEN /\ Len(fn_out.weights) = Len(fn_in.previous_weights)
           /\ \A j \in 1..Len(fn_out.weights) :
                /\ fn_out.weights[j][1] = fn_in.previous_weights[j][1]
                /\ fn_out.weights[j][3] = fn_in.previous_weights[j][3] * AlphaScale
      ELSE /\ Len(fn_out.weights) = Len(fn_in.columns)
           /\ \A j \in 1..Len(fn_out.weights) :
                /\ fn_out.weights[j][1] = fn_in.columns[j]
                /\ fn_out.weights[j][3] * Len(fn_in.columns) = WeightUnit * AlphaScale

\* C21 witness: previous weights {X: 1/2, Y: 1/3} were carried forward with
\* no asset selected.
C21_Witness ==
  /\ fn_out # NoResult /\ fn_in.assets_to_buy = <<>>
  /\ fn_in.previous_weights = << <<"Y", PrevDate, 2>>, <<"X", PrevDate, 3>> >>
  /\ fn_out.branch = "previous"
  /\ fn_out.weights = << <<"Y", LastDate, 2 * AlphaScale>>, <<"X", LastDate, 3 * AlphaScale>> >>

\* ------------------------------------------------------------------------
\* Reads of the source with retries (Source.fetch, Source.fetch_execute)
\* ------------------------------------------------------------------------

\* MAX_RETRIES
MAX_RETRIES == 20

\* what the query finds in the source: no row, one row, two rows
ResultSets == {<<>>, <<1>>, <<1, 2>>}

\* the value returned on success: fetch gives None for no row,
\* fetch_execute the rows as they are
Returned(method, res) == IF method = "fetch" /\ res = <<>> THEN None ELSE res

\* after the last failure, a normal return instead of the exception
AfterFailureSwallowed(attempt) == IF attempt < MAX_RETRIES - 1 THEN "sleep" ELSE "returned"

\* after a failed attempt and its rollback: sleep and retry, or raise when
\* this was the last attempt
AfterFailure(attempt) == IF attempt < MAX_RETRIES - 1 THEN "sleep" ELSE "raised"

\* a call of fetch or fetch_execute, before the first attempt
FetchInit ==
  /\ fn_in \in [method : {"fetch", "fetch_execute"}, rows : ResultSets]
  /\ fn_out = [pc |-> "try", attempt |-> 0, attempts |-> 0, failures |-> 0, rollbacks |-> 0,
               result |-> NoResult, raised |-> FALSE]
  /\ EngineOff
  /\ LoaderOff

\* the body of the loop up to the except clause: self.cursor raises and the
\* exception leaves the call, or the query succeeds and its result is
\* returned, or the query raises
FetchAttempt ==
  /\ fn_out.pc = "try"
  /\ fn_out.attempt < MAX_RETRIES
  /\ \/ fn_out' = [fn_out EXCEPT !.pc = "raised", !.raised = TRUE]
     \/ fn_out' = [fn_out EXCEPT !.pc = "returned", !.attempts = @ + 1,
                                  !.result = Returned(fn_in.method, fn_in.rows)]
     \/ fn_out' = [fn_out EXCEPT !.pc = "except", !.attempts = @ + 1, !.failures = @ + 1]
  /\ UNCHANGED <<fn_in, engineVars, loaderVars>>

\* the except clause: cursor.connection.rollback(), which may raise itself,
\* then sleep or raise e
FetchRollback ==
  /\ fn_out.pc = "except"
  /\ \/ fn_out' = [fn_out EXCEPT !.pc = "raised", !.raised = TRUE]
     \/ fn_out' = [fn_out EXCEPT !.rollbacks = @ + 1, !.pc = AfterFailure(fn_out.attempt),
                                  !.raised = (AfterFailure(fn_out.attempt) = "raised")]
  /\ UNCHANGED <<fn_in, engineVars, loaderVars>>

\* time.sleep(RETRY_DELAY) and the next round of the loop
FetchRetry ==
  /\ fn_out.pc = "sleep"
  /\ fn_out' = [fn_out EXCEPT !.pc = "try", !.attempt = @ + 1]
  /\ UNCHANGED <<fn_in, engineVars, loaderVars>>

FetchNext == FetchAttempt \/ FetchRollback \/ FetchRetry

SpecFetch == FetchInit /\ [][FetchNext]_vars

\* C22: the query is attempted at most MAX_RETRIES times; an attempt is
\* made only after every earlier failure has been rolled back; a normal
\* return gives the result of the first attempt that succeeded, and there is
\* none after MAX_RETRIES failures: the call has then raised, or is about to.
C22_BoundedRetry ==
  /\ fn_out.attempts <= MAX_RETRIES
  /\ fn_out.pc \in {"try", "sleep"} => (fn_out.rollbacks = fn_out.failures /\ fn_out.attempt < MAX_RETRIES)
  /\ fn_out.pc = "returned" =>
       /\ fn_out.attempts = fn_out.failures + 1
       /\ fn_out.failures < MAX_RETRIES
       /\ fn_out.result = Returned(fn_in.method, fn_in.rows)
       /\ ~fn_out.raised
  /\ fn_out.failures = MAX_RETRIES => (fn_out.pc \in {"except", "raised"} /\ fn_out.result = NoResult)
  /\ fn_out.pc = "raised" <=> fn_out.raised

\* C22 witness: twenty attempts failed, each was rolled back, and the call
\* raised.
C22_Witness ==
  /\ fn_out.pc = "raised" /\ fn_out.raised
  /\ fn_out.failures = MAX_RETRIES /\ fn_out.rollbacks = MAX_RETRIES


\* ------------------------------------------------------------------------
\* Publication of the event log entries (monitor, Loader.run_once)
\* ------------------------------------------------------------------------

\* C23: the publish step is reached only for a delivery whose transaction
\* has committed, and an exception of the publish step leaves the committed
\* state as the commit made it and does not stop the loader.
C23_PublishAfterCommitHarmless ==
  /\ pc = "publish" => (delivery_id \in committed.meta /\ ~in_progress)
  /\ raised_at = "publish" => (delivery_id \in committed.meta /\ committed = session /\ ~stop)


\* ------------------------------------------------------------------------
\* The prior state of a "_latest" kind (Loader.process of the equity and of
\* the alpaca orders loader)
\* ------------------------------------------------------------------------

\* the prior state Loader.process loads for the file f from the stored
\* table: the alpaca orders loader runs LOAD_FULL_STATE for ORDERS_LATEST;
\* every other kind, and every kind of the equity loaders, runs LOAD_STATE
\* with the keys of the file
PriorState(variant, entity, f, table) ==
  IF variant = "alpaca" /\ entity = "orders_latest"
  THEN table
  ELSE [k \in (DOMAIN table) \cap ListIdsFromSource(f) |-> table[k]]

\* the keys Loader.process selects for removal: the keys of the REMOVE
\* events of compute_events (equity), keys_to_remove (alpaca)
KeysToRemove(variant, entity, f, table) ==
  LET prev_state == PriorState(variant, entity, f, table)
      recs == [j \in 1..Len(f) |-> FromSource(f[j])]
  IN IF variant = "alpaca"
     THEN {Key(FromTarget(prev_state[k])) : k \in DOMAIN prev_state} \ {Key(recs[j]) : j \in 1..Len(recs)}
     ELSE LET p == [k \in DOMAIN prev_state |-> FromTarget(prev_state[k])]
              gone == PrevKeys(EventsAfterLoop(recs, p, 1, 0), recs)
              ev == ComputeEvents(recs, p, 1, 0, CHOOSE o \in Orders(gone) : TRUE)
          IN {Key(ev.REMOVE[j].curr) : j \in 1..Len(ev.REMOVE)}

ReconcileInit ==
  /\ fn_in \in [variant : {"equity", "alpaca"}, entity : {"orders", "orders_latest"},
                file : Batches \ {<<>>}, table : StoredTables]
  /\ fn_out = NoResult
  /\ EngineOff
  /\ LoaderOff

\* one call of process: the keys of the prior state and the keys to remove
Reconcile ==
  /\ fn_out = NoResult
  /\ fn_out' = [prior |-> DOMAIN PriorState(fn_in.variant, fn_in.entity, fn_in.file, fn_in.table),
                removed |-> KeysToRemove(fn_in.variant, fn_in.entity, fn_in.file, fn_in.table)]
  /\ UNCHANGED <<fn_in, engineVars, loaderVars>>

ReconcileNext == Reconcile

SpecReconcile == ReconcileInit /\ [][ReconcileNext]_vars

\* C24: for a "_latest" kind the prior state is the whole stored table, and
\* every stored key that is absent from the file is selected for removal.
C24_LatestReconcilesWholeTable ==
  (fn_out # NoResult /\ fn_in.entity = "orders_latest") =>
    /\ fn_out.prior = DOMAIN fn_in.table
    /\ fn_out.removed = (DOMAIN fn_in.table) \ ListIdsFromSource(fn_in.file)


\* ------------------------------------------------------------------------
\* The order of the steps of a cycle (Loader.run_once, persist_delivery)
\* ------------------------------------------------------------------------

\* a step that changes a state table or an event log table of the session
EntityWrite == session'.rows # session.rows \/ session'.log # session.log

\* C25: the persistence stage starts when every entity kind has been
\* reconciled; an entity write is made inside the transaction and before the
\* delivery row; the delivery row is written inside the transaction when
\* every entity write of the delivery has been made; the commit follows the
\* delivery row and ends the transaction, so that no entity write comes
\* before begin_transaction or after the commit.
C25_CycleStepOrder ==
  [][ /\ (pc' = "persist") => (ent_i' = Len(Entities) /\ ~dry_run)
      /\ (in_progress' /\ ~in_progress) => (pc = "persist" /\ session = committed /\ session' = session)
      /\ (EntityWrite /\ pc' # "terminated") =>
           (pc = "persist" /\ in_progress /\ delivery_id \notin session.meta /\ committed' = committed)
      /\ (session'.meta # session.meta /\ pc' # "terminated") =>
           /\ pc = "persist" /\ in_progress /\ ~EntityWrite
           /\ session'.meta = session.meta \cup {delivery_id}
           /\ Delivered(session', delivery_id)
      /\ (committed' # committed) =>
           (in_progress /\ ~in_progress' /\ committed' = session /\ session' = session /\ delivery_id \in session.meta)
    ]_vars

\* C25 witness: a cycle has gone through every step, and its committed
\* delivery wrote a state row and a log row of each of two entity kinds.
C25_Witness ==
  /\ pc = "sleep" /\ tx_begun /\ ~in_progress /\ ~raised
  /\ Delivered(committed, delivery_id)
  /\ \A n \in 1..Len(Entities) :
       /\ committed.log[Entities[n]] # cycle_start.log[Entities[n]]
       /\ committed.rows[Entities[n]] # cycle_start.rows[Entities[n]]


\* ------------------------------------------------------------------------
\* A cycle without a new decision (Loader.run_once, check_new_decisions)
\* ------------------------------------------------------------------------

\* upstream has no decision delivery, or the stored control row of the
\* portfolio was written for the latest one (and no re-adjustment is asked)
NothingNew ==
  \/ latest_decision = 0
  \/ /\ ControlKey \in DOMAIN session.rows["orders_control"]
     /\ ~adjust
     /\ LastRead(session.rows["orders_control"][ControlKey]) >= latest_decision

\* the cycle has so far closed no position, submitted no order and written
\* nothing to the database
NothingDone ==
  /\ attempted = <<>> /\ accepted = <<>> /\ closed = <<>>
  /\ session = cycle_start /\ committed = cycle_start
  /\ ~tx_begun /\ ~in_progress

C27_ActedOnAtMostOnce ==
  \A a, b \in 1..Len(acted) : a # b => acted[a] # acted[b]


\* ------------------------------------------------------------------------
\* The stored table after a delivery (Loader.process, then
\* Loader.persist_postgres on what it returned)
\* ------------------------------------------------------------------------

\* persist_postgres of the alpaca loaders without its DELETE statement
PersistPostgresNoDelete(table, records, keys_to_remove) ==
  UpsertAll(table, UpsertStatements([j \in 1..Len(records) |-> [curr |-> records[j]]]), 1)

\* persist_postgres of the alpaca loaders: UPSERT of the records, in one
\* statement or one by one, then DELETE of keys_to_remove
PersistPostgres(table, records, keys_to_remove) ==
  LET upserted == UpsertAll(table, UpsertStatements([j \in 1..Len(records) |-> [curr |-> records[j]]]), 1)
  IN [k \in (DOMAIN upserted) \ keys_to_remove |-> upserted[k]]

\* persist_postgres of the equity loaders: the statements of EntityPlan from
\* n on, on the events ev
RECURSIVE PersistEvents(_, _, _)
PersistEvents(db, ev, n) ==
  IF n > Len(EntityPlan("orders")) THEN db
  ELSE PersistEvents(ExecuteOn(db, EntityPlan("orders")[n], ev[EntityPlan("orders")[n].type]), ev, n + 1)

\* process and persist_postgres on the file f and the stored table
Store(variant, entity, f, table, did, sq) ==
  IF variant = "alpaca"
  THEN LET r == Process(entity, f, table, did, sq)
       IN [rows |-> PersistPostgres(table, r.records, r.keys_to_remove),
           removed |-> r.keys_to_remove, raised |-> FALSE]
  ELSE LET recs == [j \in 1..Len(f) |-> FromSource(f[j])]
           prev_state == PriorState(variant, entity, f, table)
           p == [k \in DOMAIN prev_state |-> FromTarget(prev_state[k])]
           gone == PrevKeys(EventsAfterLoop(recs, p, did, sq), recs)
           ev == ComputeEvents(recs, p, did, sq, CHOOSE o \in Orders(gone) : TRUE)
           db == [EmptyDb EXCEPT !.rows["orders"] = table]
       IN IF \E n \in 1..Len(EntityPlan("orders")) : StatementRaises(EntityPlan("orders")[n], ev[EntityPlan("orders")[n].type])
          THEN [rows |-> table, removed |-> gone, raised |-> TRUE]
          ELSE [rows |-> PersistEvents(db, ev, 1).rows["orders"], removed |-> gone, raised |-> FALSE]

StoreInit ==
  /\ fn_in \in [variant : {"equity", "alpaca"}, entity : {"orders", "orders_latest"},
                file : Batches \ {<<>>}, table : StoredTables, delivery_id : {1}, seq : {0}]
  /\ fn_out = NoResult
  /\ EngineOff
  /\ LoaderOff

\* one delivery of one entity kind
StoreBatch ==
  /\ fn_out = NoResult
  /\ fn_out' = Store(fn_in.variant, fn_in.entity, fn_in.file, fn_in.table, fn_in.delivery_id, fn_in.seq)
  /\ UNCHANGED <<fn_in, engineVars, loaderVars>>

StoreNext == StoreBatch

SpecStore == StoreInit /\ [][StoreNext]_vars

\* the last record of the file f with the key k
LastRecord(f, k) ==
  FromSource(f[CHOOSE j \in 1..Len(f) : Key(FromSource(f[j])) = k /\ \A x \in 1..Len(f) : Key(FromSource(f[x])) = k => x <= j])

\* C28: after the delivery, every key of the batch has a stored row with the
\* content of the last record of the batch with that key, no key of the
\* removal set has a stored row, and the row of every other key is as it
\* was before.
C28_StoredStateFollowsBatch ==
  (fn_out # NoResult /\ ~fn_out.raised) =>
    /\ \A k \in ListIdsFromSource(fn_in.file) :
         /\ k \in DOMAIN fn_out.rows
         /\ Hash(FromTarget(fn_out.rows[k])) = Hash(LastRecord(fn_in.file, k))
    /\ \A k \in fn_out.removed : k \notin DOMAIN fn_out.rows
    /\ \A k \in Keys \ (ListIdsFromSource(fn_in.file) \cup fn_out.removed) :
         /\ k \in DOMAIN fn_out.rows <=> k \in DOMAIN fn_in.table
         /\ k \in DOMAIN fn_in.table => fn_out.rows[k] = fn_in.table[k]

\* C28 witness: a delivery with two records of one key, of different
\* content, and a stored key to remove.
C28_Witness ==
  /\ fn_out # NoResult /\ ~fn_out.raised
  /\ fn_out.removed # {}
  /\ Len(fn_in.file) >= 2
  /\ Key(FromSource(fn_in.file[1])) = Key(FromSource(fn_in.file[2]))
  /\ Hash(FromSource(fn_in.file[1])) # Hash(FromSource(fn_in.file[2]))
  /\ fn_out.rows # fn_in.table


\* ------------------------------------------------------------------------
\* Recording a REMOVE (State.removal_instance, EventLog.as_record)
\* ------------------------------------------------------------------------

\* C29: for every key selected for removal the tombstone has its key fields
\* set and every value field null, as_tuple and as_record of the REMOVE
\* event do not raise, and persist_postgres goes through.
C29_RemoveCanBeRecorded ==
  /\ \A j \in 1..Len(remove) :
       /\ Key(remove[j].curr) \in Keys
       /\ remove[j].curr.quantity = None /\ remove[j].curr.side = None
       /\ ~AsTupleRaises(remove[j].curr)
  /\ epc # "raised"


\* ------------------------------------------------------------------------
\* The strategy loader: process for STRATEGY_LATEST (paper-engine-strategy,
\* Loader.process, queries/strategy_latest.py)
\* ------------------------------------------------------------------------

\* the strategies that store their decisions in paper_engine.strategy_latest
StrategyIds == {1, 2}

\* the key of a strategy_latest row: (strategy_id, asset_id_type, asset_id)
StrategyLatestKey(r) == <<r.strategy_id, r.asset_id_type, r.asset_id>>

\* the records run_strategy returns for the strategy sid: one per asset
StrategyLatestFiles(sid) ==
  UNION {{[j \in 1..Len(o) |-> [strategy_id |-> sid, asset_id_type |-> "STOCK", asset_id |-> o[j],
                                weight |-> w[o[j]], event_id |-> None, delivery_id |-> None]]
            : o \in Orders(S), w \in [S -> {1, 2}]} : S \in SUBSET Assets}

\* the stored strategy_latest tables: rows of both strategies
StrategyLatestTables ==
  UNION {[K -> [weight : {1}, delivery_id : {0}]] : K \in SUBSET (StrategyIds \X {"STOCK"} \X Assets)}

\* LOAD_FULL_STATE: "SELECT * FROM paper_engine.strategy_latest;"
LoadFullState(table) == DOMAIN table

\* Loader.process(entity=STRATEGY_LATEST): every record gets the next event
\* id and the delivery id; the keys to remove are the keys of the rows
\* LOAD_FULL_STATE returned that are not keys of the file
ProcessStrategyLatest(f, table, did, sq) ==
  LET prev_keys == LoadFullState(table)
      it == NewIterator(Len(f))
      records == [j \in 1..Len(f) |-> [f[j] EXCEPT !.event_id = IdOf(it, sq) + (j - 1), !.delivery_id = did]]
      curr_keys == {StrategyLatestKey(records[j]) : j \in 1..Len(records)}
  IN [records |-> records, keys_to_remove |-> prev_keys \ curr_keys]

StrategyInit ==
  /\ \E sid \in StrategyIds :
       fn_in \in [strategy_id : {sid}, file : StrategyLatestFiles(sid), table : StrategyLatestTables]
  /\ fn_out = NoResult
  /\ EngineOff
  /\ LoaderOff

\* run_once of the loader of strategy fn_in.strategy_id: process for
\* STRATEGY_LATEST
ProcessStrategy ==
  /\ fn_out = NoResult
  /\ fn_out' = ProcessStrategyLatest(fn_in.file, fn_in.table, 1, 0)
  /\ UNCHANGED <<fn_in, engineVars, loaderVars>>

StrategyNext == ProcessStrategy

SpecStrategy == StrategyInit /\ [][StrategyNext]_vars

\* C30: the removal set computed for strategy_latest in a cycle of the
\* strategy S holds only keys whose strategy_id is S.
C30_RemovalOwnStrategyOnly ==
  fn_out # NoResult => \A k \in fn_out.keys_to_remove : k[1] = fn_in.strategy_id


\* ------------------------------------------------------------------------
\* Audit records of the orders (Weighting.get_orders_records)
\* ------------------------------------------------------------------------

\* the audit records produced for the asset a
RecordsFor(a) == {j \in 1..Len(fn_out.orders_records) : fn_out.orders_records[j].asset_id = a}

\* C31: an audit record is produced for an asset exactly when an order (buy
\* or sell) is produced for it, for long and short decisions and any sign of
\* the quantity held.
C31_AuditRecordMatchesOrder ==
  fn_out # NoResult => \A a \in Assets : (RecordsFor(a) # {}) <=> (OrdersFor(a) # {})


\* ------------------------------------------------------------------------
\* The price of a candidate (Weighting.get_weights)
\* ------------------------------------------------------------------------

\* quotes of the latest book, Decimal(ask_price) and Decimal(bid_price)
Quotes == {0, 1, 100}

\* the arguments of Weighting.setup with asks and bids that differ
PricingInit ==
  /\ \E dec \in Decisions :
       fn_in \in [variant : {"alpaca", "equity"}, capital : {1000},
                  strategy_records : StrategyRecords(dec),
                  latest_asks : Dicts(Quotes), latest_bids : Dicts(Quotes),
                  current_positions : Dicts({5})]
  /\ fn_out = NoResult
  /\ EngineOff
  /\ LoaderOff

PricingNext == Size

SpecPricing == PricingInit /\ [][PricingNext]_vars

\* the book the candidate s is priced from
BookFor(s) == IF s.decision = 1 THEN fn_in.latest_asks ELSE fn_in.latest_bids

\* the candidate s has a quote other than 0 in its book
HasPrice(s) == s.asset_id \in DOMAIN BookFor(s) /\ BookFor(s)[s.asset_id] # 0

\* C32: a candidate is priced at the ask when long and at the bid when
\* short; a candidate with no quote or a price of 0 gets no target quantity,
\* no realized weight, no order and no audit record, and every other
\* candidate is sized at its price.
C32_PriceSelectionAndFiltering ==
  fn_out # NoResult =>
    \A j \in 1..Len(fn_in.strategy_records) :
      LET s == fn_in.strategy_records[j]
          w == fn_out.weighting
      IN /\ HasPrice(s) =>
              /\ s \in Sized
              /\ w.prices[s.asset_id] = BookFor(s)[s.asset_id]
              /\ w.notional[s.asset_id] = w.quantities[s.asset_id] * BookFor(s)[s.asset_id]
         /\ ~HasPrice(s) =>
              /\ s \notin Sized
              /\ s.asset_id \notin DOMAIN w.quantities
              /\ s.asset_id \notin DOMAIN w.real_weights
              /\ s.asset_id \notin DOMAIN w.notional
              /\ OrdersFor(s.asset_id) = {}
              /\ RecordsFor(s.asset_id) = {}

\* C32 witness: of two short candidates one has a bid that differs from its
\* ask and gets an order and a record at the bid, and the other one has an
\* ask but no bid and gets nothing.
C32_Witness ==
  /\ fn_out # NoResult /\ Len(fn_in.strategy_records) = 2
  /\ \E j, k \in 1..2 :
       LET s == fn_in.strategy_records[j]
           t == fn_in.strategy_records[k]
       IN /\ s.decision = 0 - 1
          /\ s.asset_id \in DOMAIN fn_in.latest_asks /\ HasPrice(s)
          /\ fn_in.latest_asks[s.asset_id] \notin {0, fn_in.latest_bids[s.asset_id]}
          /\ fn_out.weighting.prices[s.asset_id] = fn_in.latest_bids[s.asset_id]
          /\ OrdersFor(s.asset_id) # {} /\ RecordsFor(s.asset_id) # {}
          /\ t.asset_id \in DOMAIN fn_in.latest_asks /\ fn_in.latest_asks[t.asset_id] # 0
          /\ ~HasPrice(t) /\ OrdersFor(t.asset_id) = {}


\* ------------------------------------------------------------------------
\* The notional of a bucket against its capital (Weighting.get_weights)
\* ------------------------------------------------------------------------

\* the prices of the retained candidates from the j-th on whose quantity
\* was raised from 0 to the minimum of 1
RECURSIVE RaisedValue(_)
RaisedValue(j) ==
  LET w == fn_out.weighting
      s == w.strategy_records[j]
  IN IF j > Len(w.strategy_records) THEN 0
     ELSE (IF FloorQuantity(w.capital, s.weight, w.prices[s.asset_id]) = 0
             THEN w.prices[s.asset_id] ELSE 0) + RaisedValue(j + 1)

\* sum of the target weights of the candidates handed to setup
RECURSIVE WeightSum(_)
WeightSum(j) ==
  IF j > Len(fn_in.strategy_records) THEN 0
  ELSE fn_in.strategy_records[j].weight + WeightSum(j + 1)

BucketOrders(variant, capital, portfolio, latest_asks, latest_bids, current_positions) ==
  IF portfolio # <<>> /\ (variant = "alpaca" => capital > 0)
    THEN GetOrdersParams(variant, GetWeights(capital, portfolio, latest_asks, latest_bids, current_positions))
    ELSE [buy |-> <<>>, sell |-> <<>>]

\* the candidates, the capital, the book and the holdings of one bucket
BucketInit ==
  /\ \E dec \in Decisions, q \in Dicts(Prices) :
       fn_in \in [variant : {"alpaca", "equity"}, capital : Capitals,
                  strategy_records : StrategyRecords(dec) \cup {<<>>},
                  latest_asks : {q}, latest_bids : {q},
                  current_positions : Dicts(Held)]
  /\ fn_out = NoResult
  /\ EngineOff
  /\ LoaderOff

\* run_once from the set up of the weighting of a bucket to submit_orders
SubmitBucket ==
  /\ fn_out = NoResult
  /\ fn_out' = [orders_params |-> BucketOrders(fn_in.variant, fn_in.capital, fn_in.strategy_records,
                                               fn_in.latest_asks, fn_in.latest_bids, fn_in.current_positions)]
  /\ UNCHANGED <<fn_in, engineVars, loaderVars>>

BucketNext == SubmitBucket

SpecBucket == BucketInit /\ [][BucketNext]_vars

\* C34: when the capital of a bucket is 0, no order is submitted for any
\* asset of the bucket.
C34_NoCapitalNoOrder ==
  (fn_out # NoResult /\ fn_in.capital = 0) =>
    fn_out.orders_params.buy = <<>> /\ fn_out.orders_params.sell = <<>>


\* ------------------------------------------------------------------------
\* get_weights without previous weights
\* ------------------------------------------------------------------------

\* C35: when the previous weights are the empty list and the signal stage
\* selects at least one asset, the output is the fresh target (each selected
\* asset once, with its fresh weight) and is not empty.
C35_FirstAllocationUsesFreshTarget ==
  (fn_out # NoResult /\ fn_in.previous_weights = <<>> /\ fn_in.assets_to_buy # <<>>) =>
    /\ fn_out.weights # <<>>
    /\ Len(fn_out.weights) = Len(Fresh)
    /\ \A t \in TickersOf(Fresh) : WeightIn(fn_out.weights, t) = AlphaScale * WeightIn(Fresh, t)


\* ------------------------------------------------------------------------
\* A dry run (Loader.run_once with --dry-run)
\* ------------------------------------------------------------------------

\* C36: with dry_run set, no step of any cycle begins a transaction or
\* changes a state table, an event log table or the delivery table, in the
\* session or in the committed database.
C36_DryRunPersistsNothing ==
  [][dry_run => /\ ~in_progress' /\ ~tx_begun'
                /\ session' = session
                /\ committed' = committed]_vars

\* C36 witness: a dry-run cycle submitted an order and reconciled events for
\* its records, ended without an error, and the database is as it was when
\* the cycle started.
C36_Witness ==
  /\ dry_run /\ pc = "sleep" /\ ~raised
  /\ attempted # <<>>
  /\ delivery_id > 0
  /\ \A n \in 1..Len(Entities) : delivery[Entities[n]].CREATE # <<>>
  /\ ~tx_begun /\ session = cycle_start /\ committed = cycle_start


\* ------------------------------------------------------------------------
\* The market-hours gate (Loader.run_once, check_market_open)
\* ------------------------------------------------------------------------

\* C37: a cycle that finds the market closed submits no order and closes no
\* position.
C37_MarketHoursGate ==
  market_open = "closed" =>
    /\ attempted = <<>> /\ accepted = <<>> /\ closed = <<>>
    /\ pc \in {"sleep", "loop", "terminated"}

\* C37 witness: the second cycle found the market closed and ended, with a
\* decision upstream that no cycle has acted on.
C37_Witness ==
  /\ market_open = "closed" /\ pc = "sleep" /\ cycles = 2
  /\ latest_decision > 0
  /\ ControlKey \notin DOMAIN session.rows["orders_control"]
  /\ acted = <<>>


\* ------------------------------------------------------------------------
\* Change detection against the stored row (from_source, hash,
\* compute_events)
\* ------------------------------------------------------------------------

\* the j-th row of the file is the first one of its key, the key is stored,
\* and the value of the row is not the stored value (an upstream 0 is not a
\* missing value)
DiffersFromStored(j) ==
  LET k == Key(FromSource(file[j])) IN
    /\ k \in DOMAIN prev
    /\ \A h \in 1..(j - 1) : Key(FromSource(file[h])) # k
    /\ file[j].quantity # prev[k].quantity

\* C38: an upstream row that differs in a value field from the stored row of
\* its key, a value of 0 against a missing value included, yields an AMEND
\* of the stored row.
C38_EveryDifferenceAmends ==
  (run = 1 /\ epc = "done") =>
    \A j \in 1..Len(file) :
      DiffersFromStored(j) =>
        \E a \in 1..Len(amend) :
          /\ Key(amend[a].curr) = Key(FromSource(file[j]))
          /\ amend[a].prev = prev[Key(FromSource(file[j]))]


\* ------------------------------------------------------------------------
\* The identifiers of a delivery (compute_events, get_next_event_id)
\* ------------------------------------------------------------------------

\* the events compute_events has built so far: creates, amends, removes
EventsOfRun == create \o amend \o remove

\* C39: every event of a delivery, and the record it persists, carries the
\* delivery id of the cycle and an event id, and the event ids of the
\* creates, amends and removes of the delivery (drawn from the cursor of the
\* loop over curr and the cursor of the removal loop) are pairwise distinct.
C39_IdentifierConsistency ==
  /\ \A j \in 1..Len(EventsOfRun) :
       /\ EventsOfRun[j].curr.delivery_id = run
       /\ EventsOfRun[j].curr.event_id # None
       /\ EventsOfRun[j].curr.event_id > 0
  /\ \A a, b \in 1..Len(EventsOfRun) :
       a # b => EventsOfRun[a].curr.event_id # EventsOfRun[b].curr.event_id
  /\ \A j \in 1..Len(curr) : curr[j].delivery_id \in {None, run}

\* C39 witness: a delivery holds a CREATE, an AMEND and a REMOVE, with ids
\* of both cursors.
C39_Witness ==
  /\ epc = "done" /\ run = 1
  /\ create # <<>> /\ amend # <<>> /\ remove # <<>>
  /\ remove[1].curr.event_id > amend[1].curr.event_id

====
